---------------------------- MODULE Spec2Model ----------------------------
(***************************************************************************)
(* Model of the message-processing engine of zh_network (src/zh_network.c):*)
(* the host API zh_network_send, the link receive callback _recv_cb and    *)
(* the worker task _processing with its four work-item states.             *)
(*                                                                         *)
(* Every node runs the same program; the per-node statics of the source    *)
(* (_queue_handle, _id_vector, _route_vector, _response_vector, _attempts) *)
(* are functions over Nodes.                                               *)
(*                                                                         *)
(* Time.  The source stamps an item with queue.time = esp_timer_get_time() *)
(* / 1000 and later reads only  now - queue.time > max_waiting_time.  The  *)
(* model keeps, in the field "time" of a waiting item, the elapsed time    *)
(* now - queue.time, saturated at max_waiting_time + 1: stamping writes 0  *)
(* and Tick adds one to every waiting item.  The field is dead in TO_SEND  *)
(* and ON_RECV items (it is rewritten before it is read) and is kept 0.    *)
(*                                                                         *)
(* Message ids.  abs(esp_random()) is modelled as a fresh id: a value that *)
(* no frame in the system carries yet (ids are drawn from a counter).      *)
(*                                                                         *)
(* Steps.  zh_network_send, _recv_cb and each pass of the worker through   *)
(* its switch are one step each, and the mutex of _id_vector is always     *)
(* obtained (RaceSpec alone splits these steps at the accesses to          *)
(* _id_vector).  The platform errors of the TO_SEND case (allocation of    *)
(* the peer descriptor and of on_send, esp_now_add_peer, esp_now_send) are *)
(* steps of their own; allocation failures of the event payloads in the    *)
(* other cases are not modelled.                                           *)
(*                                                                         *)
(* Specifications.                                                         *)
(*   Spec      one node, "A", in an arbitrary mesh: its host, the link     *)
(*             results and the frames of the other nodes are free          *)
(*   FairSpec  the same node where the worker keeps running and the time   *)
(*             keeps advancing, with platform errors                       *)
(*   NetSpec   the line network A - B - C, every node running the program  *)
(*   MeshSpec  the full mesh of A, B and C, where "A" broadcasts           *)
(*   RaceSpec  the node "A" with the accesses to _id_vector step by step   *)
(***************************************************************************)
EXTENDS Integers, Sequences, FiniteSets, Bags, TLC

\* ZH_NETWORK_MAX_MESSAGE_SIZE
MaxMessageSize == 218

\* The configured network_id (ZH_NETWORK_INIT_CONFIG_DEFAULT writes 0xFAFBFCFD;
\* the model uses a short stand-in) and a foreign one.
NetworkId == "FAFBFCFD"
ForeignNetworkId == "DEADBEEF"

\* Bounds of the single-node specification (Spec): the configuration of the node ...
OpenQueueSize == 4
OpenIdVectorSize == 2
OpenRouteVectorSize == 2
OpenMaxWaitingTime == 1
OpenAttempts == 1
\* ... and, for each kind of traffic around it (see Menus), how many calls of
\* zh_network_send, frames from the link and platform faults there are
UnicastSends == 1
UnicastRecvs == 2
FloodSends == 2
FloodRecvs == 2
SearchSends == 0
SearchRecvs == 2
ApiSends == 3
FaultSends == 1
FaultRecvs == 1
MaxFault == 1
\* ... and a node whose queue holds a single item, with the calls of its host
SmallQueueSize == 1
SmallSends == 2
\* ... and a node that also hears frames of another network and frames of a wrong length
ForeignSends == 1
ForeignRecvs == 2
\* ... and a node with max_waiting_time = 0
NoWaitSends == 1
NoWaitRecvs == 1
\* ... and a host that calls zh_network_init and zh_network_deinit
LifeSends == 2
LifeRecvs == 0
LifeCalls == 3
\* RaceSpec: sends of the host, frames of "B", and the size of _id_vector
RaceSends == 2
RaceRecvs == 3
RaceIdVectorSize == 2
\* the ids the node itself draws are 1..MaxOwnId
MaxOwnId == 6
\* Bounds of the line network (NetSpec): _id_vector holds every id of one exchange,
\* and the nodes draw the ids 1..NetMaxId
NetIdVectorSize == 6
NetMaxId == 8
\* Bounds of the full mesh (MeshSpec): the broadcasts of "A", the smaller of the two
\* sizes of _id_vector, and the evictions from _id_vector after which the run stops
MeshSends == 2
MeshIdVectorSize == 1
MeshMaxEvicted == 5

Nodes == {"A", "B", "C"}
BroadcastMac == "FF"
ZeroMac == "00"

\* The ids frames of other nodes carry in the single-node specification.
EnvIds == <<101, 102, 103>>

MessageTypes == {"BROADCAST", "UNICAST", "DELIVERY_CONFIRM", "SEARCH_REQUEST", "SEARCH_RESPONSE"}
NoPayload == ""

VARIABLES
    init_config,      \* _init_config, as zh_network_init left it
    is_initialized,   \* _is_initialized, per node
    thread,           \* where _recv_cb and the worker stand in their accesses to _id_vector,
                      \* and who holds _id_vector_mutex (RaceSpec; at rest elsewhere)
    queue,            \* _queue_handle: per node, the work items, head first
    id_vector,        \* _id_vector (seen_ids)
    route_vector,     \* _route_vector (routes)
    response_vector,  \* _response_vector (confirmed_ids)
    attempts,         \* _attempts
    peers,            \* the peer list of ESP-NOW: the addresses esp_now_add_peer registered
    air,              \* frames on the air towards each node: <<link source, frame>>
    host,             \* events posted to each node's host (a bag); message_id is a ghost field
    sent,             \* the frames the step just taken handed to esp_now_send
    last,             \* the step just taken: operation, node, item handled, link result, return code
    hist,             \* ghost history the claims read
    budget            \* what the environment may still do, and the id counter

vars == <<init_config, is_initialized, thread, queue, id_vector, route_vector,
          response_vector, attempts, peers,
          air, host, sent, last, hist, budget>>

-----------------------------------------------------------------------------
(* Data                                                                    *)

\* _queue_t queue = {0}
ZeroData ==
    [message_type |-> "BROADCAST", network_id |-> "0", message_id |-> 0, confirm_id |-> 0,
     original_target_mac |-> ZeroMac, original_sender_mac |-> ZeroMac, sender_mac |-> ZeroMac,
     payload |-> NoPayload, payload_len |-> 0]

NoItem == [time |-> 0, id |-> "NONE", data |-> ZeroData]

NoArg == [target |-> "NULL", data_len |-> 0, data_null |-> FALSE]

NoLast == [op |-> "init", node |-> "A", item |-> NoItem, bit |-> "NONE", fault |-> "NONE",
           ret |-> "NONE", arg |-> NoArg, src |-> ZeroMac, len_ok |-> TRUE]

\* zh_vector_push_back
zh_vector_push_back(v, x) == Append(v, x)

zh_vector_get_size(v) == Len(v)

\* items are counted from 0
zh_vector_get_item(v, i) == v[i + 1]

\* zh_vector_delete_item(v, i) with the source's 0-based index i
zh_vector_delete_item(v, i) ==
    [k \in 1..(Len(v) - 1) |-> IF k <= i THEN v[k] ELSE v[k + 1]]

\* a push that never deletes: the bound of the tables must tell it from PushBounded
PushUnbounded(v, x, bound) == zh_vector_push_back(v, x)

\* a bounded push that deletes the newest item: the order of eviction must tell
\* it from PushBounded
PushDropNewest(v, x, bound) ==
    IF Len(v) + 1 > bound THEN v ELSE zh_vector_push_back(v, x)

\* push_back, then delete item 0 when the size exceeds the bound
PushBounded(v, x, bound) ==
    LET w == zh_vector_push_back(v, x)
    IN IF Len(w) > bound THEN zh_vector_delete_item(w, 0) ELSE w

\* the ids a bounded push evicts
Evicted(v, x, bound) ==
    IF Len(v) + 1 > bound THEN {zh_vector_push_back(v, x)[1]} ELSE {}

\* xQueueSend: back insert; fails (the item is lost) when the queue is full
xQueueSend(q, item, size) == IF Len(q) < size THEN Append(q, item) ELSE q

\* xQueueSendToFront
xQueueSendToFront(q, item, size) == IF Len(q) < size THEN <<item>> \o q ELSE q

\* uxQueueSpacesAvailable
uxQueueSpacesAvailable(q, size) == size - Len(q)


\* a scan that finds nothing: the duplicate filter must tell it from IndexOf
IndexOfNothing(v, x) == -1

\* a scan that looks at item 0 only: the drop of a repeated frame must tell it
\* from IndexOf
IndexOfFirstOnly(v, x) == IF Len(v) > 0 /\ v[1] = x THEN 0 ELSE -1

\* zh_vector_get_size / zh_vector_get_item scan of _id_vector and _response_vector:
\* the source's index of the first item equal to x, or -1
IndexOf(v, x) ==
    IF \E k \in 1..Len(v) : v[k] = x
    THEN (CHOOSE k \in 1..Len(v) : v[k] = x /\ \A j \in 1..(k - 1) : v[j] # x) - 1
    ELSE -1

\* the lookup loop over _route_vector: the source's index of the first entry whose
\* original_target_mac is mac, or -1
RouteIndex(rv, mac) ==
    IF \E k \in 1..Len(rv) : rv[k].original_target_mac = mac
    THEN (CHOOSE k \in 1..Len(rv) : /\ rv[k].original_target_mac = mac
                                     /\ \A j \in 1..(k - 1) : rv[j].original_target_mac # mac) - 1
    ELSE -1

\* for (i = 0; i < size; ++i) if (entry i is for mac) zh_vector_delete_item(v, i);
\* the index moves on after a deletion, so the entry that slid into place i is skipped
RECURSIVE DeleteLoop(_, _, _)
DeleteLoop(rv, i, mac) ==
    IF i >= Len(rv) THEN rv
    ELSE IF rv[i + 1].original_target_mac = mac
         THEN DeleteLoop(zh_vector_delete_item(rv, i), i + 1, mac)
         ELSE DeleteLoop(rv, i + 1, mac)

DeleteRoutes(rv, mac) == DeleteLoop(rv, 0, mac)

\* ON_RECV of SEARCH_REQUEST / SEARCH_RESPONSE: the delete loop runs on the frame's
\* original_target_mac, the entry pushed is original_sender_mac -> sender_mac
LearnRoute(rv, data, bound) ==
    PushBounded(DeleteRoutes(rv, data.original_target_mac),
                [original_target_mac |-> data.original_sender_mac,
                 intermediate_target_mac |-> data.sender_mac],
                bound)

\* the SEARCH_REQUEST synthesized from an item that has no usable route
SearchRequest(data, self, fresh) ==
    [data EXCEPT !.message_type = "SEARCH_REQUEST", !.original_sender_mac = self,
                 !.payload_len = 0, !.payload = NoPayload, !.message_id = fresh]

\* a DELIVERY_CONFIRM that names its own id instead of the id of the UNICAST: the
\* originator must tell it from DeliveryConfirm
DeliveryConfirmOwnId(data, self, fresh) ==
    [data EXCEPT !.message_type = "DELIVERY_CONFIRM",
                 !.original_target_mac = data.original_sender_mac,
                 !.original_sender_mac = self,
                 !.payload_len = 0, !.payload = NoPayload,
                 !.confirm_id = fresh, !.message_id = fresh]

\* the DELIVERY_CONFIRM synthesized from a UNICAST that reached its target
DeliveryConfirm(data, self, fresh) ==
    [data EXCEPT !.message_type = "DELIVERY_CONFIRM",
                 !.original_target_mac = data.original_sender_mac,
                 !.original_sender_mac = self,
                 !.payload_len = 0, !.payload = NoPayload,
                 !.confirm_id = data.message_id, !.message_id = fresh]

\* a response that keeps the addresses of the request: the answer of the target
\* of a SEARCH_REQUEST must tell it from SearchResponse
SearchResponseUnswapped(data, self, fresh) ==
    [data EXCEPT !.message_type = "SEARCH_RESPONSE",
                 !.payload_len = 0, !.payload = NoPayload, !.message_id = fresh]

\* the SEARCH_RESPONSE synthesized from a SEARCH_REQUEST that reached its target
SearchResponse(data, self, fresh) ==
    [data EXCEPT !.message_type = "SEARCH_RESPONSE",
                 !.original_target_mac = data.original_sender_mac,
                 !.original_sender_mac = self,
                 !.payload_len = 0, !.payload = NoPayload, !.message_id = fresh]

\* zh_network_event_on_send_t / zh_network_event_on_recv_t, with the message_id of
\* the item that caused the event as a ghost field
OnSendEvent(data, status) ==
    [type |-> "ON_SEND", mac_addr |-> data.original_target_mac, status |-> status,
     data |-> NoPayload, data_len |-> 0, message_id |-> data.message_id]

OnRecvEvent(data) ==
    [type |-> "ON_RECV", mac_addr |-> data.original_sender_mac, status |-> "NONE",
     data |-> data.payload, data_len |-> data.payload_len, message_id |-> data.message_id]

\* esp_event_post
esp_event_post(h, n, e) == [h EXCEPT ![n] = @ (+) SetToBag({e})]

\* a test that gives an item one more millisecond: the timeout of a waiting item
\* must tell it from Expired
ExpiredLate(item) == item.time > init_config.max_waiting_time + 1

\* now - queue.time > max_waiting_time
Expired(item) == item.time > init_config.max_waiting_time

\* a stamp that leaves queue.id as it was, TO_SEND: the moves of a work item must
\* tell it from Stamp
StampOnly(item, id) == [item EXCEPT !.time = 0]

\* queue.time = esp_timer_get_time() / 1000
Stamp(item, id) == [item EXCEPT !.id = id, !.time = 0]

\* queue.id = id for an item that stops waiting: its time is dead from here on
Requeued(item, id) == [item EXCEPT !.id = id, !.time = 0]

-----------------------------------------------------------------------------
(* Ghost history                                                           *)

NoHist ==
    [accepted |-> {},         \* <<node, frame>> of every send() that returned ESP_OK
     evicted |-> EmptyBag,    \* <<node, id>> once per eviction of id from the node's _id_vector
     linked |-> {},           \* <<node, frame, next hop>> of own UNICASTs whose transmission the
                              \* link confirmed
     heard |-> {},            \* <<node, <<link source, frame>>>> of every frame _recv_cb admitted
     confirm_in_time |-> {},  \* <<node, id>>: a DELIVERY_CONFIRM for id was received while the
                              \* WAIT_RESPONSE item of id had waited at most max_waiting_time
     flooded |-> EmptyBag]    \* <<node, id>> once per TO_SEND item of a BROADCAST of another node
                              \* that the worker of the node took to the link

NoteEvicted(h, n, ids) ==
    [h EXCEPT !.evicted = @ (+) SetToBag({<<n, i>> : i \in ids})]

NoteFlooded(h, n, data) ==
    IF data.message_type = "BROADCAST" /\ data.original_sender_mac # n
    THEN [h EXCEPT !.flooded = @ (+) SetToBag({<<n, data.message_id>>})]
    ELSE h

-----------------------------------------------------------------------------
(* zh_network_send                                                         *)

DataLens == {0, 1, MaxMessageSize, MaxMessageSize + 1}
Payloads == {"x"}

\* the item zh_network_send builds
\* an item that is a BROADCAST only for the NULL target: the item of a send to the
\* broadcast address must tell it from SendItem
SendItemNullOnly(n, target, payload, data_len, fresh) ==
    [time |-> 0, id |-> "TO_SEND",
     data |-> [ZeroData EXCEPT
        !.network_id = init_config.network_id,
        !.message_id = fresh,
        !.original_sender_mac = n,
        !.message_type = IF target = "NULL" THEN "BROADCAST" ELSE "UNICAST",
        !.original_target_mac = IF target = "NULL" THEN BroadcastMac ELSE target,
        !.payload = payload,
        !.payload_len = data_len]]

SendItem(n, target, payload, data_len, fresh) ==
    [time |-> 0, id |-> "TO_SEND",
     data |-> [ZeroData EXCEPT
        !.network_id = init_config.network_id,
        !.message_id = fresh,
        !.original_sender_mac = n,
        !.message_type = IF target = "NULL" \/ target = BroadcastMac THEN "BROADCAST" ELSE "UNICAST",
        !.original_target_mac = IF target = "NULL" THEN BroadcastMac ELSE target,
        !.payload = payload,
        !.payload_len = data_len]]

\* an argument check that lets an empty message pass: the result of zh_network_send
\* must tell it from InvalidArg
InvalidArgButEmpty(data_len, data_null) ==
    data_null \/ data_len > MaxMessageSize

\* data_len == 0 || data == NULL || data_len > ZH_NETWORK_MAX_MESSAGE_SIZE
InvalidArg(data_len, data_null) ==
    data_len = 0 \/ data_null \/ data_len > MaxMessageSize

\* a threshold that also turns away a call that finds exactly half of the queue
\* free: the result of zh_network_send must tell it from AlmostFull
AlmostFullAtHalf(q) ==
    uxQueueSpacesAvailable(q, init_config.queue_size) <= init_config.queue_size \div 2

\* uxQueueSpacesAvailable(_queue_handle) < _init_config.queue_size / 2
AlmostFull(q) ==
    uxQueueSpacesAvailable(q, init_config.queue_size) < init_config.queue_size \div 2

\* a check that passes every call: the result of zh_network_send and of
\* zh_network_deinit before zh_network_init must tell it from NotInitialized
AlwaysInitialized(n) == FALSE

\* _is_initialized == false
NotInitialized(n) == ~is_initialized[n]

zh_network_send(n, target, payload, data_len, data_null, fresh) ==
    LET arg == [target |-> target, data_len |-> data_len, data_null |-> data_null]
        item == SendItem(n, target, payload, data_len, fresh)
        ret == IF NotInitialized(n) THEN "ESP_FAIL"
               ELSE IF InvalidArg(data_len, data_null) THEN "ESP_ERR_INVALID_ARG"
               ELSE IF AlmostFull(queue[n]) THEN "ESP_ERR_INVALID_STATE"
               ELSE IF Len(queue[n]) >= init_config.queue_size THEN "ESP_FAIL"
               ELSE "ESP_OK"
    IN /\ queue' = IF ret = "ESP_OK"
                   THEN [queue EXCEPT ![n] = xQueueSend(@, item, init_config.queue_size)]
                   ELSE queue
       /\ hist' = IF ret = "ESP_OK"
                  THEN [hist EXCEPT !.accepted = @ \cup {<<n, item.data>>}]
                  ELSE hist
       /\ last' = [NoLast EXCEPT !.op = "send", !.node = n, !.arg = arg, !.ret = ret,
                                 !.item = IF ret = "ESP_OK" THEN item ELSE NoItem]
       /\ sent' = <<>>
       /\ UNCHANGED <<init_config, is_initialized, thread, id_vector, route_vector,
                      response_vector, attempts, peers, host>>

-----------------------------------------------------------------------------
(* _recv_cb                                                                *)

\* a check that turns frames away only when the queue is full: the drop of
\* _recv_cb must tell it from Backpressure
BackpressureWhenFull(q) ==
    uxQueueSpacesAvailable(q, init_config.queue_size) < 1

\* uxQueueSpacesAvailable(_queue_handle) < (_init_config.queue_size - 2): the left
\* side is a UBaseType_t, so a negative difference is converted to unsigned 32 bit
\* (2^32 - 1 or 2^32 - 2), which every number of free slots is below
Backpressure(q) ==
    \/ init_config.queue_size - 2 < 0
    \/ uxQueueSpacesAvailable(q, init_config.queue_size) < init_config.queue_size - 2

\* an item that keeps the sender_mac of the wire: the routes a node learns must
\* tell it from RecvItem
RecvItemWire(src, data) ==
    [time |-> 0, id |-> "ON_RECV", data |-> data]

\* the ON_RECV item: the wire frame with sender_mac taken from the link callback
RecvItem(src, data) ==
    [time |-> 0, id |-> "ON_RECV", data |-> [data EXCEPT !.sender_mac = src]]

\* a DELIVERY_CONFIRM for an item that waits in WAIT_RESPONSE and has not waited too long
InTime(q, data) ==
    /\ data.message_type = "DELIVERY_CONFIRM"
    /\ \E k \in 1..Len(q) : /\ q[k].id = "WAIT_RESPONSE"
                             /\ q[k].data.message_id = data.confirm_id
                             /\ ~Expired(q[k])

\* a check that takes the frames of every network: the drop of _recv_cb must tell
\* it from SameNetwork
AnyNetwork(data) == TRUE

\* memcmp(&queue.data.network_id, &_init_config.network_id, ...) == 0
SameNetwork(data) == data.network_id = init_config.network_id

\* len_ok: data_len == sizeof(_queue_t) - 14
recv_cb(n, src, data, len_ok) ==
    LET admitted == /\ ~Backpressure(queue[n])
                    /\ len_ok
                    /\ SameNetwork(data)
                    /\ IndexOf(id_vector[n], data.message_id) = -1
        item == RecvItem(src, data)
    IN /\ id_vector' = IF admitted
                       THEN [id_vector EXCEPT ![n] =
                                PushBounded(@, data.message_id, init_config.id_vector_size)]
                       ELSE id_vector
       /\ queue' = IF admitted
                   THEN [queue EXCEPT ![n] = xQueueSendToFront(@, item, init_config.queue_size)]
                   ELSE queue
       /\ hist' = IF admitted
                  THEN LET h == [NoteEvicted(hist, n, Evicted(id_vector[n], data.message_id,
                                                             init_config.id_vector_size))
                                   EXCEPT !.heard = @ \cup {<<n, <<src, data>>>>}]
                       IN IF InTime(queue[n], data) /\ data.original_target_mac = n
                          THEN [h EXCEPT !.confirm_in_time = @ \cup {<<n, data.confirm_id>>}]
                          ELSE h
                  ELSE hist
       /\ last' = [NoLast EXCEPT !.op = "recv_cb", !.node = n, !.src = src, !.len_ok = len_ok,
                                 !.item = [item EXCEPT !.data.sender_mac = data.sender_mac],
                                 !.ret = IF admitted THEN "queued" ELSE "dropped"]
       /\ sent' = <<>>
       /\ UNCHANGED <<init_config, is_initialized, thread, route_vector, response_vector,
                      attempts, peers, host>>
       \* the callback is registered between zh_network_init and zh_network_deinit
       /\ is_initialized[n]

\* zh_network_init with a valid configuration on a started WiFi: the configuration
\* is stored, the queue and the three vectors are created empty, ESP-NOW is
\* started, the callbacks are registered and the task is created
zh_network_init(n, config) ==
    /\ init_config' = config
    /\ is_initialized' = [is_initialized EXCEPT ![n] = TRUE]
    /\ queue' = [queue EXCEPT ![n] = <<>>]
    /\ id_vector' = [id_vector EXCEPT ![n] = <<>>]
    /\ route_vector' = [route_vector EXCEPT ![n] = <<>>]
    /\ response_vector' = [response_vector EXCEPT ![n] = <<>>]
    /\ peers' = [peers EXCEPT ![n] = {}]
    /\ last' = [NoLast EXCEPT !.op = "zh_network_init", !.node = n, !.ret = "ESP_OK"]
    /\ sent' = <<>>
    /\ UNCHANGED <<thread, attempts, host, hist>>

\* zh_network_deinit: ESP_FAIL before zh_network_init; otherwise the queue and the
\* vectors are deleted, ESP-NOW is stopped (which empties its peer list) and the
\* task is deleted
zh_network_deinit(n) ==
    /\ IF NotInitialized(n)
       THEN /\ last' = [NoLast EXCEPT !.op = "zh_network_deinit", !.node = n, !.ret = "ESP_FAIL"]
            /\ UNCHANGED <<is_initialized, queue, id_vector, route_vector, response_vector,
                           peers>>
       ELSE /\ last' = [NoLast EXCEPT !.op = "zh_network_deinit", !.node = n, !.ret = "ESP_OK"]
            /\ is_initialized' = [is_initialized EXCEPT ![n] = FALSE]
            /\ queue' = [queue EXCEPT ![n] = <<>>]
            /\ id_vector' = [id_vector EXCEPT ![n] = <<>>]
            /\ route_vector' = [route_vector EXCEPT ![n] = <<>>]
            /\ response_vector' = [response_vector EXCEPT ![n] = <<>>]
            /\ peers' = [peers EXCEPT ![n] = {}]
    /\ sent' = <<>>
    /\ UNCHANGED <<init_config, thread, attempts, host, hist>>

-----------------------------------------------------------------------------
(* Time                                                                    *)

\* one millisecond passes: every waiting item has waited one more
Aged(item) ==
    IF item.id \in {"WAIT_ROUTE", "WAIT_RESPONSE"} /\ ~Expired(item)
    THEN [item EXCEPT !.time = @ + 1]
    ELSE item

Tick ==
    /\ queue' = [n \in Nodes |-> [k \in 1..Len(queue[n]) |-> Aged(queue[n][k])]]
    /\ queue' # queue
    /\ last' = [NoLast EXCEPT !.op = "tick"]
    /\ sent' = <<>>
    /\ UNCHANGED <<init_config, is_initialized, thread, id_vector, route_vector,
                   response_vector, attempts, peers, air, host, hist, budget>>

-----------------------------------------------------------------------------
(* _processing, case TO_SEND                                               *)

\* the task exists between zh_network_init and zh_network_deinit; xQueueReceive
\* hands the worker the head item, and its state selects the case
Working(n, id) == is_initialized[n] /\ queue[n] # <<>> /\ Head(queue[n]).id = id

\* frames sent to the broadcast peer
IsFlood(data) == data.message_type \in {"BROADCAST", "SEARCH_REQUEST", "SEARCH_RESPONSE"}

\* the own-frame branch of the broadcast peer setup: the id goes into _id_vector
SeenAfterSetup(n, data) ==
    IF IsFlood(data) /\ data.original_sender_mac = n
    THEN PushBounded(id_vector[n], data.message_id, init_config.id_vector_size)
    ELSE id_vector[n]

EvictedAtSetup(n, data) ==
    IF IsFlood(data) /\ data.original_sender_mac = n
    THEN Evicted(id_vector[n], data.message_id, init_config.id_vector_size)
    ELSE {}

\* flag: the route lookup found an entry (always set aside for the broadcast peer)
HasPeer(n, data) ==
    IsFlood(data) \/ RouteIndex(route_vector[n], data.original_target_mac) # -1

\* peer->peer_addr
PeerAddr(n, data) ==
    IF IsFlood(data) THEN BroadcastMac
    ELSE route_vector[n][RouteIndex(route_vector[n], data.original_target_mac) + 1].intermediate_target_mac

\* the item goes to the routing waiting list and a SEARCH_REQUEST goes to the front
ToWaitRoute(rest, item, n, fresh) ==
    xQueueSendToFront(
        xQueueSend(rest, Stamp(item, "WAIT_ROUTE"), init_config.queue_size),
        [time |-> 0, id |-> "TO_SEND", data |-> SearchRequest(item.data, n, fresh)],
        init_config.queue_size)

\* the k-th esp_now_send of this item is reached: every earlier one failed with
\* _attempts < _init_config.attempts
Reaches(n, k) ==
    k >= 1 /\ \A i \in 1..(k - 1) : (attempts[n] + i) % 256 < init_config.attempts

\* the k-th esp_now_send is the last one when it fails
LastTry(n, k) == Reaches(n, k) /\ ~((attempts[n] + k) % 256 < init_config.attempts)

Transmissions(n, data, k) ==
    [i \in 1..k |-> [node |-> n, peer |-> PeerAddr(n, data), data |-> data]]

\* esp_now_add_peer and esp_now_del_peer on the peer list
esp_now_add_peer(ps, addr) == ps \cup {addr}

esp_now_del_peer(ps, addr) == ps \ {addr}

\* the address of the item's peer is in the peer list already: esp_now_add_peer
\* returns ESP_ERR_ESPNOW_EXIST
Registered(n, data) == PeerAddr(n, data) \in peers[n]

\* the peer list after esp_now_add_peer succeeded and the case broke off without
\* esp_now_del_peer
PeerLeft(n, data) == [peers EXCEPT ![n] = esp_now_add_peer(@, PeerAddr(n, data))]

\* the peer list after esp_now_add_peer and the esp_now_del_peer at the end of the case
PeerRemoved(n, data) ==
    [peers EXCEPT ![n] = esp_now_del_peer(esp_now_add_peer(@, PeerAddr(n, data)),
                                          PeerAddr(n, data))]

\* heap_caps_malloc of the peer descriptor fails
TO_SEND_peer_alloc_fail(n) ==
    /\ Working(n, "TO_SEND")
    /\ queue' = [queue EXCEPT ![n] = Tail(@)]
    /\ last' = [NoLast EXCEPT !.op = "TO_SEND", !.node = n, !.item = Head(queue[n]),
                              !.fault = "peer_alloc"]
    /\ sent' = <<>>
    /\ UNCHANGED <<init_config, is_initialized, thread, id_vector, route_vector,
                   response_vector, attempts, peers, host, hist>>

\* UNICAST / DELIVERY_CONFIRM with no entry in _route_vector
TO_SEND_no_route(n, fresh) ==
    /\ Working(n, "TO_SEND")
    /\ ~HasPeer(n, Head(queue[n]).data)
    /\ queue' = [queue EXCEPT ![n] = ToWaitRoute(Tail(@), Head(@), n, fresh)]
    /\ last' = [NoLast EXCEPT !.op = "TO_SEND", !.node = n, !.item = Head(queue[n]),
                              !.ret = "no_route"]
    /\ sent' = <<>>
    /\ UNCHANGED <<init_config, is_initialized, thread, id_vector, route_vector,
                   response_vector, attempts, peers, host, hist>>

\* esp_now_add_peer fails, or heap_caps_malloc of on_send fails
TO_SEND_setup_fail(n, fault) ==
    /\ Working(n, "TO_SEND")
    /\ HasPeer(n, Head(queue[n]).data)
    /\ fault \in {"add_peer", "on_send_alloc"}
    /\ fault = "on_send_alloc" => ~Registered(n, Head(queue[n]).data)
    /\ peers' = IF fault = "on_send_alloc" THEN PeerLeft(n, Head(queue[n]).data) ELSE peers
    /\ queue' = [queue EXCEPT ![n] = Tail(@)]
    /\ id_vector' = [id_vector EXCEPT ![n] = SeenAfterSetup(n, Head(queue[n]).data)]
    /\ hist' = NoteEvicted(hist, n, EvictedAtSetup(n, Head(queue[n]).data))
    /\ last' = [NoLast EXCEPT !.op = "TO_SEND", !.node = n, !.item = Head(queue[n]),
                              !.fault = fault]
    /\ sent' = <<>>
    /\ UNCHANGED <<init_config, is_initialized, thread, route_vector, response_vector,
                   attempts, host>>

\* esp_now_add_peer fails because an earlier item left the address in the peer list
TO_SEND_peer_exists(n) ==
    /\ Working(n, "TO_SEND")
    /\ HasPeer(n, Head(queue[n]).data)
    /\ Registered(n, Head(queue[n]).data)
    /\ queue' = [queue EXCEPT ![n] = Tail(@)]
    /\ id_vector' = [id_vector EXCEPT ![n] = SeenAfterSetup(n, Head(queue[n]).data)]
    /\ hist' = NoteEvicted(hist, n, EvictedAtSetup(n, Head(queue[n]).data))
    /\ last' = [NoLast EXCEPT !.op = "TO_SEND", !.node = n, !.item = Head(queue[n]),
                              !.fault = "peer_exists"]
    /\ sent' = <<>>
    /\ UNCHANGED <<init_config, is_initialized, thread, route_vector, response_vector,
                   attempts, peers, host>>

\* the k-th esp_now_send returns an error
TO_SEND_send_error(n, k) ==
    /\ Working(n, "TO_SEND")
    /\ HasPeer(n, Head(queue[n]).data)
    /\ Reaches(n, k)
    /\ ~Registered(n, Head(queue[n]).data)
    /\ peers' = PeerLeft(n, Head(queue[n]).data)
    /\ queue' = [queue EXCEPT ![n] = Tail(@)]
    /\ id_vector' = [id_vector EXCEPT ![n] = SeenAfterSetup(n, Head(queue[n]).data)]
    /\ hist' = NoteEvicted(hist, n, EvictedAtSetup(n, Head(queue[n]).data))
    /\ attempts' = [attempts EXCEPT ![n] = (@ + k) % 256]
    /\ last' = [NoLast EXCEPT !.op = "TO_SEND", !.node = n, !.item = Head(queue[n]),
                              !.fault = "send_err"]
    /\ sent' = Transmissions(n, Head(queue[n]).data, k - 1)
    /\ UNCHANGED <<init_config, is_initialized, thread, route_vector, response_vector, host>>

\* what the DATA_SEND_SUCCESS branch leaves in the queue
AfterSuccess(rest, item, n) ==
    IF item.data.original_sender_mac = n /\ item.data.message_type = "UNICAST"
    THEN xQueueSend(rest, Stamp(item, "WAIT_RESPONSE"), init_config.queue_size)
    ELSE rest

\* the k-th esp_now_send is confirmed by the link (DATA_SEND_SUCCESS)
TO_SEND_success(n, k) ==
    /\ Working(n, "TO_SEND")
    /\ HasPeer(n, Head(queue[n]).data)
    /\ Reaches(n, k)
    /\ ~Registered(n, Head(queue[n]).data)
    /\ peers' = PeerRemoved(n, Head(queue[n]).data)
    /\ LET item == Head(queue[n])
           own == item.data.original_sender_mac = n
       IN /\ queue' = [queue EXCEPT ![n] = AfterSuccess(Tail(@), item, n)]
          /\ host' = IF own /\ item.data.message_type = "BROADCAST"
                     THEN esp_event_post(host, n, OnSendEvent(item.data, "SUCCESS"))
                     ELSE host
          /\ hist' = LET h == NoteFlooded(NoteEvicted(hist, n, EvictedAtSetup(n, item.data)),
                                             n, item.data)
                     IN IF own /\ item.data.message_type = "UNICAST"
                        THEN [h EXCEPT !.linked = @ \cup {<<n, item.data, PeerAddr(n, item.data)>>}]
                        ELSE h
          /\ last' = [NoLast EXCEPT !.op = "TO_SEND", !.node = n, !.item = item,
                                    !.bit = "DATA_SEND_SUCCESS"]
          /\ sent' = Transmissions(n, item.data, k)
    /\ id_vector' = [id_vector EXCEPT ![n] = SeenAfterSetup(n, Head(queue[n]).data)]
    /\ attempts' = [attempts EXCEPT ![n] = 0]
    /\ UNCHANGED <<init_config, is_initialized, thread, route_vector, response_vector>>

\* every try fails: the link reports DATA_SEND_FAIL, or the 50 ms wait times out
TO_SEND_fail(n, bit, fresh) ==
    /\ Working(n, "TO_SEND")
    /\ HasPeer(n, Head(queue[n]).data)
    /\ bit \in {"DATA_SEND_FAIL", "TIMEOUT"}
    /\ ~Registered(n, Head(queue[n]).data)
    /\ peers' = PeerRemoved(n, Head(queue[n]).data)
    /\ \E k \in 1..(init_config.attempts + 1) :
          /\ LastTry(n, k)
          /\ sent' = Transmissions(n, Head(queue[n]).data, k)
    /\ LET item == Head(queue[n])
           unicast == item.data.original_target_mac # BroadcastMac
       IN /\ route_vector' = IF unicast
                             THEN [route_vector EXCEPT ![n] =
                                      DeleteRoutes(@, item.data.original_target_mac)]
                             ELSE route_vector
          /\ queue' = [queue EXCEPT ![n] =
                          IF unicast THEN ToWaitRoute(Tail(@), item, n, fresh) ELSE Tail(@)]
          /\ last' = [NoLast EXCEPT !.op = "TO_SEND", !.node = n, !.item = item, !.bit = bit]
    /\ id_vector' = [id_vector EXCEPT ![n] = SeenAfterSetup(n, Head(queue[n]).data)]
    /\ hist' = NoteFlooded(NoteEvicted(hist, n, EvictedAtSetup(n, Head(queue[n]).data)),
                           n, Head(queue[n]).data)
    /\ attempts' = [attempts EXCEPT ![n] = 0]
    /\ UNCHANGED <<init_config, is_initialized, thread, response_vector, host>>

-----------------------------------------------------------------------------
(* _processing, case ON_RECV                                               *)

\* what the ON_RECV case leaves in the queue
AfterRecv(rest, item, n, fresh) ==
    LET d == item.data
        size == init_config.queue_size
        forward == xQueueSendToFront(rest, Requeued(item, "TO_SEND"), size)
        self == d.original_target_mac = n
    IN CASE d.message_type = "BROADCAST" ->
              xQueueSend(rest, Requeued(item, "TO_SEND"), size)
         [] d.message_type = "UNICAST" ->
              IF self
              THEN xQueueSendToFront(rest, [time |-> 0, id |-> "TO_SEND",
                                            data |-> DeliveryConfirm(d, n, fresh)], size)
              ELSE forward
         [] d.message_type = "DELIVERY_CONFIRM" ->
              IF self THEN rest ELSE forward
         [] d.message_type = "SEARCH_REQUEST" ->
              IF self
              THEN xQueueSendToFront(rest, [time |-> 0, id |-> "TO_SEND",
                                            data |-> SearchResponse(d, n, fresh)], size)
              ELSE forward
         [] d.message_type = "SEARCH_RESPONSE" ->
              IF self THEN rest ELSE forward

\* a test that hands the host only what is addressed to this node: the order of
\* event and re-flood must tell it from Delivers
DeliversToTargetOnly(n, data) ==
    data.message_type \in {"BROADCAST", "UNICAST"} /\ data.original_target_mac = n

\* the frame is for the host: a BROADCAST, or a UNICAST addressed to this node
Delivers(n, data) ==
    \/ data.message_type = "BROADCAST"
    \/ data.message_type = "UNICAST" /\ data.original_target_mac = n

ON_RECV(n, fresh) ==
    /\ Working(n, "ON_RECV")
    /\ LET item == Head(queue[n])
           d == item.data
       IN /\ queue' = [queue EXCEPT ![n] = AfterRecv(Tail(@), item, n, fresh)]
          /\ host' = IF Delivers(n, d) THEN esp_event_post(host, n, OnRecvEvent(d)) ELSE host
          /\ response_vector' =
                IF d.message_type = "DELIVERY_CONFIRM" /\ d.original_target_mac = n
                THEN [response_vector EXCEPT ![n] =
                         PushBounded(@, d.confirm_id, init_config.queue_size)]
                ELSE response_vector
          /\ route_vector' =
                IF d.message_type \in {"SEARCH_REQUEST", "SEARCH_RESPONSE"}
                THEN [route_vector EXCEPT ![n] =
                         LearnRoute(@, d, init_config.route_vector_size)]
                ELSE route_vector
          /\ last' = [NoLast EXCEPT !.op = "ON_RECV", !.node = n, !.item = item]
    /\ sent' = <<>>
    /\ UNCHANGED <<init_config, is_initialized, thread, id_vector, attempts, peers, hist>>

-----------------------------------------------------------------------------
(* _processing, cases WAIT_RESPONSE and WAIT_ROUTE                         *)

WAIT_RESPONSE(n) ==
    /\ Working(n, "WAIT_RESPONSE")
    /\ LET item == Head(queue[n])
           d == item.data
           i == IndexOf(response_vector[n], d.message_id)
           own == d.original_sender_mac = n
       IN /\ response_vector' = IF i # -1
                                THEN [response_vector EXCEPT ![n] = zh_vector_delete_item(@, i)]
                                ELSE response_vector
          /\ host' = IF i # -1 THEN esp_event_post(host, n, OnSendEvent(d, "SUCCESS"))
                     ELSE IF Expired(item) /\ own
                          THEN esp_event_post(host, n, OnSendEvent(d, "FAIL"))
                          ELSE host
          /\ queue' = [queue EXCEPT ![n] =
                          IF i # -1 \/ Expired(item) THEN Tail(@)
                          ELSE xQueueSend(Tail(@), item, init_config.queue_size)]
          /\ last' = [NoLast EXCEPT !.op = "WAIT_RESPONSE", !.node = n, !.item = item,
                                    !.ret = IF i # -1 THEN "found"
                                            ELSE IF Expired(item) THEN "expired" ELSE "wait"]
    /\ sent' = <<>>
    /\ UNCHANGED <<init_config, is_initialized, thread, id_vector, route_vector, attempts,
                   peers, hist>>

WAIT_ROUTE(n) ==
    /\ Working(n, "WAIT_ROUTE")
    /\ LET item == Head(queue[n])
           d == item.data
           found == RouteIndex(route_vector[n], d.original_target_mac) # -1
           own == d.original_sender_mac = n
       IN /\ host' = IF ~found /\ Expired(item) /\ own
                     THEN esp_event_post(host, n, OnSendEvent(d, "FAIL"))
                     ELSE host
          /\ queue' = [queue EXCEPT ![n] =
                          IF found
                          THEN xQueueSend(Tail(@), Requeued(item, "TO_SEND"), init_config.queue_size)
                          ELSE IF Expired(item) THEN Tail(@)
                          ELSE xQueueSend(Tail(@), item, init_config.queue_size)]
          /\ last' = [NoLast EXCEPT !.op = "WAIT_ROUTE", !.node = n, !.item = item,
                                    !.ret = IF found THEN "found"
                                            ELSE IF Expired(item) THEN "expired" ELSE "wait"]
    /\ sent' = <<>>
    /\ UNCHANGED <<init_config, is_initialized, thread, id_vector, route_vector,
                   response_vector, attempts, peers, hist>>

-----------------------------------------------------------------------------
(* Spec: one node, "A", in an arbitrary mesh.  Its host calls send, the    *)
(* link answers each transmission as it likes, and the frames of the       *)
(* other nodes ("C", heard directly or through "B") arrive in any order.   *)

Dut == "A"

\* no _recv_cb under way, the worker between two items, _id_vector_mutex free
\* and for the send-completion signal: no bit set in _event_group_handle, no
\* _send_cb owed by the link, no frame handed to the link yet
AtRest == [mutex |-> "free", recv |-> "idle", i |-> 0, src |-> ZeroMac, data |-> ZeroData,
           worker |-> "idle", item |-> NoItem,
           bits |-> {},        \* the bits set in _event_group_handle
           link |-> <<>>,      \* link[k]: the status the link has for the k-th esp_now_send
           cb |-> <<>>,        \* the transmissions whose _send_cb has not run yet
           acted |-> [tx |-> 0, bit |-> {}],   \* the last result the worker took, and for which transmission
           down |-> 0,         \* the statement zh_network_deinit is at (0: not running)
           deleted |-> {},     \* what zh_network_deinit has deleted or unregistered so far
           used |-> {}]        \* <<who, what>>: who used a deleted object

\* static zh_network_init_config_t _init_config = {0}: the configuration before
\* zh_network_init
ZeroConfig ==
    [network_id |-> "00000000", queue_size |-> 0, max_waiting_time |-> 0,
     id_vector_size |-> 0, route_vector_size |-> 0, attempts |-> 0]

OpenConfig ==
    [network_id |-> NetworkId, queue_size |-> OpenQueueSize,
     max_waiting_time |-> OpenMaxWaitingTime, id_vector_size |-> OpenIdVectorSize,
     route_vector_size |-> OpenRouteVectorSize, attempts |-> OpenAttempts]

InitWith(config, b) ==
    /\ init_config = config
    /\ is_initialized = [n \in Nodes |-> config # ZeroConfig]
    /\ thread = AtRest
    /\ queue = [n \in Nodes |-> <<>>]
    /\ id_vector = [n \in Nodes |-> <<>>]
    /\ route_vector = [n \in Nodes |-> <<>>]
    /\ response_vector = [n \in Nodes |-> <<>>]
    /\ attempts = [n \in Nodes |-> 0]
    /\ peers = [n \in Nodes |-> {}]
    /\ air = [n \in Nodes |-> <<>>]
    /\ host = [n \in Nodes |-> EmptyBag]
    /\ sent = <<>>
    /\ last = NoLast
    /\ hist = NoHist
    /\ budget = b

\* the node with a queue of a single item
SmallConfig == [OpenConfig EXCEPT !.queue_size = SmallQueueSize]

\* the traffic around the node, see NewFrames and SendArgs
\* the node that does not wait
NoWaitConfig == [OpenConfig EXCEPT !.max_waiting_time = 0]

Menus == {"unicast", "flood", "search", "api", "fault", "small", "foreign", "nowait", "life"}

MenuConfig(menu) ==
    CASE menu = "small" -> SmallConfig
      [] menu = "nowait" -> NoWaitConfig
      [] menu = "life" -> ZeroConfig
      [] OTHER -> OpenConfig

MenuBudget(menu) ==
    [menu |-> menu,
     send |-> CASE menu = "unicast" -> UnicastSends [] menu = "flood" -> FloodSends
                [] menu = "search" -> SearchSends [] menu = "api" -> ApiSends
                [] menu = "fault" -> FaultSends [] menu = "small" -> SmallSends
                [] menu = "foreign" -> ForeignSends [] menu = "nowait" -> NoWaitSends
                [] menu = "life" -> LifeSends,
     recv |-> CASE menu = "unicast" -> UnicastRecvs [] menu = "flood" -> FloodRecvs
                [] menu = "search" -> SearchRecvs [] menu = "api" -> 0
                [] menu = "fault" -> FaultRecvs [] menu = "small" -> 0
                [] menu = "foreign" -> ForeignRecvs [] menu = "nowait" -> NoWaitRecvs
                [] menu = "life" -> LifeRecvs,
     fault |-> IF menu = "fault" THEN MaxFault ELSE 0,
     life |-> IF menu = "life" THEN LifeCalls ELSE 0,
     next_id |-> 1, env_id |-> 0]

Init == \E menu \in Menus : InitWith(MenuConfig(menu), MenuBudget(menu))

\* abs(esp_random()): the next unused id
Fresh == budget.next_id

\* the id counter moves on when the step put the fresh id into the queue
TookFresh(n) == \E k \in 1..Len(queue'[n]) : queue'[n][k].data.message_id = Fresh

Spend(what, n) ==
    budget' = [budget EXCEPT
                  ![what] = @ - 1,
                  !.next_id = IF TookFresh(n) THEN @ + 1 ELSE @]

Draw(n) ==
    budget' = [budget EXCEPT !.next_id = IF TookFresh(n) THEN @ + 1 ELSE @]

\* the frames of other nodes that can reach the node
EnvFrame(type, id, confirm, target, payload, len) ==
    [ZeroData EXCEPT !.message_type = type, !.network_id = NetworkId, !.message_id = id,
                     !.confirm_id = confirm, !.original_target_mac = target,
                     !.original_sender_mac = "C", !.payload = payload, !.payload_len = len]

\* own UNICASTs that are on the air
OnAir(n) == {p[2] : p \in {q \in hist.linked : q[1] = n}}

\* own UNICASTs that were handed to the relay "B"
Relayed(n) == {p[2] : p \in {q \in hist.linked : q[1] = n /\ q[3] = "B"}}

\* a frame of another node the node has not heard yet carries the next unused id;
\* budget.menu names the traffic of the mesh around the node:
\*   "unicast": the node sends UNICASTs to "C"; "C" answers route searches and confirms
\*   "fault":   the same, and the platform may fail while a TO_SEND item is handled
\*   "flood":   the node and "C" broadcast, and "C" sends UNICASTs to the node
\*   "search":  "C" searches routes to the node and to "B"
\*   "api":     the host calls zh_network_send with valid and invalid arguments
\*   "small":   the node sends UNICASTs to "C" through a queue of a single item
\*   "nowait":  as "unicast", with max_waiting_time = 0
\*   "life":    the node starts before zh_network_init; the host calls
\*              zh_network_init (once at a time), zh_network_deinit and
\*              zh_network_send with valid and invalid arguments in any order
\*   "foreign": "C" broadcasts and searches the node, and so does a node of the network
\*              ForeignNetworkId; some frames arrive with a wrong length
NewFrames(n, i) ==
    CASE budget.menu \in {"unicast", "fault", "nowait", "life"} ->
           {<<src, EnvFrame("SEARCH_RESPONSE", i, 0, n, NoPayload, 0)>> : src \in {"B", "C"}}
           \cup {<<"B", EnvFrame("DELIVERY_CONFIRM", i, d.message_id, n, NoPayload, 0)>> :
                    d \in OnAir(n)}
      [] budget.menu = "flood" ->
           {<<"B", EnvFrame("BROADCAST", i, 0, BroadcastMac, "x", 1)>>,
            <<"B", EnvFrame("UNICAST", i, 0, n, "x", 1)>>}
      [] budget.menu = "search" ->
           {<<src, EnvFrame("SEARCH_REQUEST", i, 0, t, NoPayload, 0)>> :
                    src \in {"B", "C"}, t \in {n, "B"}}
      [] budget.menu = "foreign" ->
           {<<"B", [f EXCEPT !.network_id = id]>> :
                    f \in {EnvFrame("BROADCAST", i, 0, BroadcastMac, "x", 1),
                           EnvFrame("SEARCH_REQUEST", i, 0, n, NoPayload, 0)},
                    id \in {NetworkId, ForeignNetworkId}}
      [] OTHER -> {}

\* the lengths the frames arrive with: the wire length of a frame, or another one
LenOks == IF budget.menu = "foreign" THEN BOOLEAN ELSE {TRUE}

\* the arguments of zh_network_send: <<target, data_len, data is NULL>>
SendArgs ==
    CASE budget.menu = "flood" -> {<<"NULL", 1, FALSE>>}
      [] budget.menu = "life" -> {<<"C", 1, FALSE>>, <<"C", 0, FALSE>>, <<"NULL", 1, TRUE>>}
      [] budget.menu = "api" -> ({"C"} \X DataLens \X BOOLEAN)
                                   \cup {<<"NULL", 1, FALSE>>, <<BroadcastMac, 1, FALSE>>,
                                         <<"B", 1, FALSE>>}
      [] OTHER -> {<<"C", 1, FALSE>>}

\* the host of the node calls zh_network_send with arguments it accepts or turns away
\* for a queue that is almost full
OpenSend ==
    /\ budget.send > 0
    /\ Fresh <= MaxOwnId
    /\ \E arg \in SendArgs, payload \in Payloads :
          zh_network_send(Dut, arg[1], payload, arg[2], arg[3], Fresh)
    /\ Spend("send", Dut)
    /\ UNCHANGED air

\* a frame heard before that a neighbour repeats, or an own UNICAST that the relay
\* "B", whose first route to the target leads back through this node, returns
Replays(n) ==
    {p[2] : p \in {q \in hist.heard : q[1] = n}} \cup {<<"B", d>> : d \in Relayed(n)}

\* the link delivers a frame to _recv_cb
OpenRecv ==
    /\ budget.recv > 0
    /\ \/ /\ budget.env_id < Len(EnvIds)
          /\ \E f \in NewFrames(Dut, EnvIds[budget.env_id + 1]), len_ok \in LenOks :
                recv_cb(Dut, f[1], f[2], len_ok)
          /\ budget' = [budget EXCEPT !.recv = @ - 1, !.env_id = @ + 1]
       \/ /\ \E f \in Replays(Dut) : recv_cb(Dut, f[1], f[2], TRUE)
          /\ budget' = [budget EXCEPT !.recv = @ - 1]
    /\ UNCHANGED air

OpenToSend ==
    /\ Fresh <= MaxOwnId
    /\ \/ TO_SEND_no_route(Dut, Fresh)
       \/ TO_SEND_peer_exists(Dut)
       \/ \E k \in 1..(init_config.attempts + 1) : TO_SEND_success(Dut, k)
       \/ \E bit \in {"DATA_SEND_FAIL", "TIMEOUT"} : TO_SEND_fail(Dut, bit, Fresh)
    /\ Draw(Dut)
    /\ UNCHANGED air

\* a resource error of the platform while a TO_SEND item is handled
OpenToSendFault ==
    /\ budget.fault > 0
    /\ \/ TO_SEND_peer_alloc_fail(Dut)
       \/ \E fault \in {"add_peer", "on_send_alloc"} : TO_SEND_setup_fail(Dut, fault)
       \/ \E k \in 1..(init_config.attempts + 1) : TO_SEND_send_error(Dut, k)
    /\ budget' = [budget EXCEPT !.fault = @ - 1]
    /\ UNCHANGED air

OpenOnRecv ==
    /\ Fresh <= MaxOwnId
    /\ ON_RECV(Dut, Fresh)
    /\ Draw(Dut)
    /\ UNCHANGED air

OpenWait ==
    /\ WAIT_RESPONSE(Dut) \/ WAIT_ROUTE(Dut)
    /\ UNCHANGED <<air, budget>>

OpenTick == Tick

\* the host starts the node that is not started
OpenInit ==
    /\ budget.life > 0
    /\ NotInitialized(Dut)
    /\ zh_network_init(Dut, OpenConfig)
    /\ budget' = [budget EXCEPT !.life = @ - 1]
    /\ UNCHANGED air

OpenDeinit ==
    /\ budget.life > 0
    /\ zh_network_deinit(Dut)
    /\ budget' = [budget EXCEPT !.life = @ - 1]
    /\ UNCHANGED air

Next ==
    \/ OpenSend
    \/ OpenInit
    \/ OpenDeinit
    \/ OpenRecv
    \/ OpenToSend
    \/ OpenToSendFault
    \/ OpenOnRecv
    \/ OpenWait
    \/ OpenTick

Spec == Init /\ [][Next]_vars

-----------------------------------------------------------------------------
(* FairSpec: the node of Spec with the traffic "fault", where the worker   *)
(* task keeps running and the time keeps advancing.                        *)

FairInit == InitWith(OpenConfig, MenuBudget("fault"))

\* the host of this node never stops it
FairNext ==
    \/ OpenSend
    \/ OpenRecv
    \/ OpenToSend
    \/ OpenToSendFault
    \/ OpenOnRecv
    \/ OpenWait
    \/ OpenTick

FairSpec ==
    /\ FairInit
    /\ [][FairNext]_vars
    /\ WF_vars(OpenToSend)
    /\ WF_vars(OpenOnRecv)
    /\ WF_vars(OpenWait)
    /\ WF_vars(OpenTick)

-----------------------------------------------------------------------------
(* NetSpec: the line network A - B - C.  Every node runs the program, the  *)
(* links are reliable (a frame sent to a neighbour or to the broadcast     *)
(* address is confirmed and reaches every addressed neighbour), and no     *)
(* item waits longer than max_waiting_time.                                *)

Neighbours(n) ==
    IF budget.menu = "mesh" THEN Nodes \ {n}
    ELSE CASE n = "A" -> {"B"}
           [] n = "B" -> {"A", "C"}
           [] n = "C" -> {"B"}

\* the nodes a frame sent by n to the peer address reaches
Receivers(n, peer) ==
    IF peer = BroadcastMac THEN Neighbours(n) ELSE {peer} \cap Neighbours(n)

NetConfig == [OpenConfig EXCEPT !.id_vector_size = NetIdVectorSize]

NetInit ==
    InitWith(NetConfig,
             [menu |-> "net", send |-> 1, recv |-> 0, fault |-> 0, next_id |-> 1, env_id |-> 0])

\* the frames the step handed to esp_now_send are on the air towards their receivers
Radio(n) ==
    air' = [m \in Nodes |->
              IF sent' # <<>> /\ m \in Receivers(n, sent'[1].peer)
              THEN air[m] \o [k \in 1..Len(sent') |-> <<n, sent'[k].data>>]
              ELSE air[m]]

\* the host of "A" sends "x" to "C"
NetSend ==
    /\ budget.send > 0
    /\ zh_network_send("A", "C", "x", 1, FALSE, Fresh)
    /\ Spend("send", "A")
    /\ UNCHANGED air

\* the link hands the next frame on the air to _recv_cb of node n
NetRecv(n) ==
    /\ air[n] # <<>>
    /\ recv_cb(n, Head(air[n])[1], Head(air[n])[2], TRUE)
    /\ air' = [air EXCEPT ![n] = Tail(@)]
    /\ UNCHANGED budget

NetToSend(n) ==
    /\ Fresh <= NetMaxId
    /\ \/ TO_SEND_no_route(n, Fresh)
       \/ /\ Working(n, "TO_SEND")
          /\ HasPeer(n, Head(queue[n]).data)
          /\ Receivers(n, PeerAddr(n, Head(queue[n]).data)) # {}
          /\ TO_SEND_success(n, 1)
    /\ Draw(n)
    /\ Radio(n)

NetOnRecv(n) ==
    /\ Fresh <= NetMaxId
    /\ ON_RECV(n, Fresh)
    /\ Draw(n)
    /\ UNCHANGED air

NetWait(n) ==
    /\ WAIT_RESPONSE(n) \/ WAIT_ROUTE(n)
    /\ UNCHANGED <<air, budget>>

\* time passes, but no item has to wait longer than max_waiting_time
NetTick ==
    /\ \A n \in Nodes : \A k \in 1..Len(queue[n]) :
          queue[n][k].id \in {"WAIT_ROUTE", "WAIT_RESPONSE"}
              => queue[n][k].time < init_config.max_waiting_time
    /\ Tick

NetNext ==
    \/ NetSend
    \/ \E n \in Nodes : NetRecv(n)
    \/ \E n \in Nodes : NetToSend(n)
    \/ \E n \in Nodes : NetOnRecv(n)
    \/ \E n \in Nodes : NetWait(n)
    \/ NetTick

\* the link delivers, and the worker task of every node keeps running
NetFair ==
    \A n \in Nodes :
        /\ WF_vars(NetRecv(n))
        /\ WF_vars(NetToSend(n))
        /\ WF_vars(NetOnRecv(n))
        /\ WF_vars(NetWait(n))

NetSpec == NetInit /\ [][NetNext]_vars /\ NetFair

-----------------------------------------------------------------------------
(* LossSpec: the line of NetSpec, where the event loop of a node may refuse *)
(* an ON_RECV event (esp_event_post returns an error when its queue stays    *)
(* full for the tick the worker waits).                                      *)

\* UNICAST for this node whose event the event loop refuses: the error is
\* logged and the branch goes on to build the DELIVERY_CONFIRM
ON_RECV_post_fail(n, fresh) ==
    /\ Working(n, "ON_RECV")
    /\ LET item == Head(queue[n])
           d == item.data
       IN /\ d.message_type = "UNICAST"
          /\ d.original_target_mac = n
          /\ queue' = [queue EXCEPT ![n] = AfterRecv(Tail(@), item, n, fresh)]
          /\ last' = [NoLast EXCEPT !.op = "ON_RECV", !.node = n, !.item = item,
                                    !.fault = "esp_event_post"]
    /\ host' = host
    /\ sent' = <<>>
    /\ UNCHANGED <<init_config, is_initialized, thread, id_vector, route_vector,
                   response_vector, attempts, peers, hist>>

LossInit ==
    InitWith(NetConfig,
             [menu |-> "net", send |-> 1, recv |-> 0, fault |-> MaxFault, next_id |-> 1,
              env_id |-> 0])

LossOnRecv(n) ==
    /\ Fresh <= NetMaxId
    /\ budget.fault > 0
    /\ ON_RECV_post_fail(n, Fresh)
    /\ budget' = [budget EXCEPT !.fault = @ - 1, !.next_id = @ + 1]
    /\ UNCHANGED air

LossNext ==
    \/ NetNext
    \/ \E n \in Nodes : LossOnRecv(n)

LossSpec == LossInit /\ [][LossNext]_vars /\ NetFair

-----------------------------------------------------------------------------
(* MeshSpec: the full mesh of "A", "B" and "C" with reliable links, where  *)
(* every node hears every other node.  "A" broadcasts; _id_vector holds    *)
(* either every id of the run or a single one.  The run stops after        *)
(* MeshMaxEvicted evictions from _id_vector.                               *)

MeshInit ==
    \E size \in {MeshIdVectorSize, NetIdVectorSize} :
        InitWith([OpenConfig EXCEPT !.id_vector_size = size],
                 [menu |-> "mesh", send |-> MeshSends, recv |-> 0, fault |-> 0,
                  next_id |-> 1, env_id |-> 0])

MeshRuns == BagCardinality(hist.evicted) < MeshMaxEvicted

\* the host of "A" broadcasts "x"
MeshSend ==
    /\ MeshRuns
    /\ budget.send > 0
    /\ zh_network_send("A", "NULL", "x", 1, FALSE, Fresh)
    /\ Spend("send", "A")
    /\ UNCHANGED air

MeshRecv(n) == MeshRuns /\ NetRecv(n)

MeshToSend(n) ==
    /\ MeshRuns
    /\ TO_SEND_success(n, 1)
    /\ Draw(n)
    /\ Radio(n)

MeshOnRecv(n) ==
    /\ MeshRuns
    /\ ON_RECV(n, Fresh)
    /\ Draw(n)
    /\ UNCHANGED air

MeshNext ==
    \/ MeshSend
    \/ \E n \in Nodes : MeshRecv(n)
    \/ \E n \in Nodes : MeshToSend(n)
    \/ \E n \in Nodes : MeshOnRecv(n)

\* the link delivers, and the worker task of every node keeps running
MeshFair ==
    \A n \in Nodes :
        /\ WF_vars(MeshRecv(n))
        /\ WF_vars(MeshToSend(n))
        /\ WF_vars(MeshOnRecv(n))

MeshSpec == MeshInit /\ [][MeshNext]_vars /\ MeshFair

-----------------------------------------------------------------------------
(* RaceSpec: the node "A" where the accesses of _recv_cb and of the worker *)
(* to _id_vector are steps of their own.  _recv_cb runs in the task of the *)
(* link and the worker in its own task, so their steps interleave.  The    *)
(* host broadcasts, and "B" sends broadcasts whose ids may repeat.  The    *)
(* variable "last" records whole handlers and keeps its value in between.  *)

RaceInit ==
    InitWith([OpenConfig EXCEPT !.id_vector_size = RaceIdVectorSize],
             [menu |-> "race", send |-> RaceSends, recv |-> RaceRecvs, fault |-> 0,
              life |-> 0, next_id |-> 1, env_id |-> 0])

RaceFrames == {<<"B", EnvFrame("BROADCAST", EnvIds[k], 0, BroadcastMac, "x", 1)>> : k \in 1..2}

\* the host of "A" broadcasts "x"
RaceSend ==
    /\ budget.send > 0
    /\ zh_network_send(Dut, "NULL", "x", 1, FALSE, Fresh)
    /\ Spend("send", Dut)
    /\ UNCHANGED air

\* _recv_cb is called with a frame of the right length and network: with enough
\* room in the queue it goes on to the scan of _id_vector
recv_cb_begin(n, src, data) ==
    /\ is_initialized[n]
    /\ thread.recv = "idle"
    /\ ~Backpressure(queue[n])
    /\ SameNetwork(data)
    /\ thread' = [thread EXCEPT !.recv = "scan", !.i = 0, !.src = src, !.data = data]
    /\ UNCHANGED <<init_config, is_initialized, queue, id_vector, route_vector,
                   response_vector, attempts, peers, host, sent, last, hist>>

\* one turn of the loop over _id_vector, which takes no mutex: past the end the
\* callback goes on, at the id of the frame it returns
recv_cb_scan(n) ==
    /\ thread.recv = "scan"
    /\ thread' = IF thread.i >= zh_vector_get_size(id_vector[n])
                 THEN [thread EXCEPT !.recv = "take"]
                 ELSE IF zh_vector_get_item(id_vector[n], thread.i) = thread.data.message_id
                 THEN [thread EXCEPT !.recv = "idle"]
                 ELSE [thread EXCEPT !.i = @ + 1]
    /\ UNCHANGED <<init_config, is_initialized, queue, id_vector, route_vector,
                   response_vector, attempts, peers, host, sent, last, hist>>

\* xSemaphoreTake(_id_vector_mutex, portTICK_PERIOD_MS): the mutex is obtained
\* when it is free; held by the other task it may stay so for the tick, and the
\* caller skips its insertion
xSemaphoreTake(who, pc, got, missed) ==
    /\ thread[who] = pc
    /\ \/ /\ thread.mutex = "free"
          /\ thread' = [thread EXCEPT !.mutex = who, ![who] = got]
       \/ /\ thread.mutex \notin {"free", who}
          /\ thread' = [thread EXCEPT ![who] = missed]

\* zh_vector_push_back under the mutex
MutexPush(n, who, id) ==
    /\ thread[who] = "push"
    /\ thread.mutex = who
    /\ id_vector' = [id_vector EXCEPT ![n] = zh_vector_push_back(@, id)]
    /\ thread' = [thread EXCEPT ![who] = "evict"]

\* the size test and zh_vector_delete_item(0) under the mutex
MutexEvict(n, who) ==
    /\ thread[who] = "evict"
    /\ thread.mutex = who
    /\ id_vector' = [id_vector EXCEPT ![n] =
                        IF zh_vector_get_size(@) > init_config.id_vector_size
                        THEN zh_vector_delete_item(@, 0) ELSE @]
    /\ thread' = [thread EXCEPT ![who] = "give"]

xSemaphoreGive(who, next) ==
    /\ thread[who] = "give"
    /\ thread.mutex = who
    /\ thread' = [thread EXCEPT !.mutex = "free", ![who] = next]

\* the insertion of _recv_cb, step by step
recv_cb_insert(n) ==
    /\ \/ xSemaphoreTake("recv", "take", "push", "queue") /\ UNCHANGED id_vector
       \/ MutexPush(n, "recv", thread.data.message_id)
       \/ MutexEvict(n, "recv")
       \/ xSemaphoreGive("recv", "queue") /\ UNCHANGED id_vector
    /\ UNCHANGED <<init_config, is_initialized, queue, route_vector, response_vector,
                   attempts, peers, host, sent, last, hist>>

\* the end of _recv_cb: sender_mac is stamped and the item goes to the front
recv_cb_queue(n) ==
    /\ thread.recv = "queue"
    /\ queue' = [queue EXCEPT ![n] =
                    xQueueSendToFront(@, RecvItem(thread.src, thread.data),
                                      init_config.queue_size)]
    /\ last' = [NoLast EXCEPT !.op = "recv_cb", !.node = n, !.src = thread.src,
                              !.item = RecvItem(thread.src, thread.data), !.ret = "queued"]
    /\ hist' = [hist EXCEPT !.heard = @ \cup {<<n, <<thread.src, thread.data>>>>}]
    /\ thread' = [thread EXCEPT !.recv = "idle"]
    /\ sent' = <<>>
    /\ UNCHANGED <<init_config, is_initialized, id_vector, route_vector, response_vector,
                   attempts, peers, host>>

\* the head of the queue is a TO_SEND item of a flooded frame of this node
OwnFlood(n) ==
    /\ Working(n, "TO_SEND")
    /\ IsFlood(Head(queue[n]).data)
    /\ Head(queue[n]).data.original_sender_mac = n

\* xQueueReceive: the worker takes that item out of the queue
TO_SEND_begin(n) ==
    /\ thread.worker = "idle"
    /\ OwnFlood(n)
    /\ thread' = [thread EXCEPT !.worker = "take", !.item = Head(queue[n])]
    /\ queue' = [queue EXCEPT ![n] = Tail(@)]
    /\ UNCHANGED <<init_config, is_initialized, id_vector, route_vector, response_vector,
                   attempts, peers, host, sent, last, hist>>

\* the insertion of the worker in the setup of the broadcast peer, step by step
TO_SEND_insert(n) ==
    /\ \/ xSemaphoreTake("worker", "take", "push", "send") /\ UNCHANGED id_vector
       \/ MutexPush(n, "worker", thread.item.data.message_id)
       \/ MutexEvict(n, "worker")
       \/ xSemaphoreGive("worker", "send") /\ UNCHANGED id_vector
    /\ UNCHANGED <<init_config, is_initialized, queue, route_vector, response_vector,
                   attempts, peers, host, sent, last, hist>>

\* the rest of the TO_SEND case for that item: the peer is added, the frame is
\* handed to the link, which confirms, and the peer is removed
TO_SEND_rest(n) ==
    /\ thread.worker = "send"
    /\ ~Registered(n, thread.item.data)
    /\ LET item == thread.item
       IN /\ queue' = [queue EXCEPT ![n] = AfterSuccess(@, item, n)]
          /\ host' = IF item.data.message_type = "BROADCAST"
                     THEN esp_event_post(host, n, OnSendEvent(item.data, "SUCCESS"))
                     ELSE host
          /\ last' = [NoLast EXCEPT !.op = "TO_SEND", !.node = n, !.item = item,
                                    !.bit = "DATA_SEND_SUCCESS"]
          /\ sent' = Transmissions(n, item.data, 1)
    /\ peers' = PeerRemoved(n, thread.item.data)
    /\ thread' = [thread EXCEPT !.worker = "idle", !.item = NoItem]
    /\ attempts' = [attempts EXCEPT ![n] = 0]
    /\ UNCHANGED <<init_config, is_initialized, id_vector, route_vector, response_vector, hist>>

RaceRecv ==
    /\ budget.recv > 0
    /\ \E f \in RaceFrames : recv_cb_begin(Dut, f[1], f[2])
    /\ budget' = [budget EXCEPT !.recv = @ - 1]
    /\ UNCHANGED air

RaceRecvScan == recv_cb_scan(Dut) /\ UNCHANGED <<air, budget>>

RaceRecvInsert == recv_cb_insert(Dut) /\ UNCHANGED <<air, budget>>

RaceRecvQueue == recv_cb_queue(Dut) /\ UNCHANGED <<air, budget>>

RaceWorkerBegin == TO_SEND_begin(Dut) /\ UNCHANGED <<air, budget>>

RaceWorkerInsert == TO_SEND_insert(Dut) /\ UNCHANGED <<air, budget>>

RaceWorkerRest == TO_SEND_rest(Dut) /\ UNCHANGED <<air, budget>>

\* the other items, which do not touch _id_vector, are handled in one step
RaceWorkerOther ==
    /\ thread.worker = "idle"
    /\ ~OwnFlood(Dut)
    /\ ON_RECV(Dut, Fresh) \/ TO_SEND_success(Dut, 1)
    /\ Draw(Dut)
    /\ UNCHANGED air

RaceNext ==
    \/ RaceSend
    \/ RaceRecv
    \/ RaceRecvScan
    \/ RaceRecvInsert
    \/ RaceRecvQueue
    \/ RaceWorkerBegin
    \/ RaceWorkerInsert
    \/ RaceWorkerRest
    \/ RaceWorkerOther

RaceSpec == RaceInit /\ [][RaceNext]_vars

-----------------------------------------------------------------------------
(* BitsSpec: the send-completion signal, step by step.  The host of "A"     *)
(* floods; the link reports every transmission through _send_cb, at any     *)
(* time after esp_now_send: during the 50 ms wait or after its timeout.     *)

BitsAttempts == 2
BitsSends == 2

EventBit(status) == IF status = "ESP_NOW_SEND_SUCCESS" THEN "DATA_SEND_SUCCESS"
                    ELSE "DATA_SEND_FAIL"

BitsInit ==
    InitWith([OpenConfig EXCEPT !.attempts = BitsAttempts],
             [menu |-> "bits", send |-> BitsSends, recv |-> 0, fault |-> 0,
              life |-> 0, next_id |-> 1, env_id |-> 0])

BitsSend ==
    /\ budget.send > 0
    /\ zh_network_send(Dut, "NULL", "x", 1, FALSE, Fresh)
    /\ Spend("send", Dut)
    /\ UNCHANGED air

\* the worker takes an own flood item and goes up to the label SEND: the id is
\* recorded and the broadcast peer is added
TO_SEND_setup(n) ==
    /\ thread.worker = "idle"
    /\ OwnFlood(n)
    /\ ~Registered(n, Head(queue[n]).data)
    /\ thread' = [thread EXCEPT !.worker = "send", !.item = Head(queue[n])]
    /\ queue' = [queue EXCEPT ![n] = Tail(@)]
    /\ id_vector' = [id_vector EXCEPT ![n] = SeenAfterSetup(n, Head(queue[n]).data)]
    /\ peers' = PeerLeft(n, Head(queue[n]).data)
    /\ sent' = <<>>
    /\ UNCHANGED <<init_config, is_initialized, route_vector, response_vector, attempts,
                   host, last, hist>>

\* SEND: ++_attempts and esp_now_send returns ESP_OK; the link owes one _send_cb
\* with the status of this transmission
esp_now_send(n, status) ==
    /\ thread.worker = "send"
    /\ attempts' = [attempts EXCEPT ![n] = (@ + 1) % 256]
    /\ thread' = [thread EXCEPT !.worker = "wait",
                                !.link = Append(@, status),
                                !.cb = Append(@, Len(thread.link) + 1)]
    /\ sent' = Transmissions(n, thread.item.data, 1)
    /\ UNCHANGED <<init_config, is_initialized, queue, id_vector, route_vector,
                   response_vector, peers, host, last, hist>>

\* _send_cb: the link reports the oldest transmission it has not reported yet
send_cb(n) ==
    /\ thread.cb # <<>>
    /\ thread' = [thread EXCEPT !.bits = @ \cup {EventBit(thread.link[Head(thread.cb)])},
                                !.cb = Tail(@)]
    /\ UNCHANGED <<init_config, is_initialized, queue, id_vector, route_vector,
                   response_vector, attempts, peers, host, sent, last, hist>>

\* xEventGroupWaitBits returns the bits that are set and clears them, or nothing
\* after 50 ms without a bit; then the rest of the case for a flood item
xEventGroupWaitBits(n) ==
    /\ thread.worker = "wait"
    /\ LET bit == thread.bits
           item == thread.item
           success == "DATA_SEND_SUCCESS" \in bit
           again == ~success /\ attempts[n] < init_config.attempts
       IN /\ thread' = [thread EXCEPT
                           !.bits = {},
                           !.acted = [tx |-> Len(thread.link), bit |-> bit],
                           !.worker = IF again THEN "send" ELSE "idle",
                           !.item = IF again THEN @ ELSE NoItem]
          /\ attempts' = IF again THEN attempts ELSE [attempts EXCEPT ![n] = 0]
          /\ peers' = IF again THEN peers ELSE PeerRemoved(n, item.data)
          /\ host' = IF success /\ item.data.message_type = "BROADCAST"
                     THEN esp_event_post(host, n, OnSendEvent(item.data, "SUCCESS"))
                     ELSE host
          /\ last' = IF again THEN last
                     ELSE [NoLast EXCEPT !.op = "TO_SEND", !.node = n, !.item = item,
                                         !.bit = IF success THEN "DATA_SEND_SUCCESS"
                                                 ELSE IF bit = {} THEN "TIMEOUT"
                                                 ELSE "DATA_SEND_FAIL"]
    /\ sent' = <<>>
    /\ UNCHANGED <<init_config, is_initialized, queue, id_vector, route_vector,
                   response_vector, hist>>

BitsTake == TO_SEND_setup(Dut) /\ UNCHANGED <<air, budget>>

BitsTransmit ==
    /\ \E status \in {"ESP_NOW_SEND_SUCCESS", "ESP_NOW_SEND_FAIL"} : esp_now_send(Dut, status)
    /\ UNCHANGED <<air, budget>>

BitsCallback == send_cb(Dut) /\ UNCHANGED <<air, budget>>

BitsWait == xEventGroupWaitBits(Dut) /\ UNCHANGED <<air, budget>>

BitsNext ==
    \/ BitsSend
    \/ BitsTake
    \/ BitsTransmit
    \/ BitsCallback
    \/ BitsWait

BitsSpec == BitsInit /\ [][BitsNext]_vars

-----------------------------------------------------------------------------
(* DownSpec: zh_network_deinit, statement by statement, while the host      *)
(* sends from another task, the link calls _recv_cb and _send_cb and the    *)
(* worker runs.                                                             *)

DownSends == 1
DownRecvs == 1

\* the statements of zh_network_deinit after the _is_initialized test, in order;
\* the last one is _is_initialized = false
DeinitOrder == <<"event_group", "queue", "send_cb", "recv_cb", "vectors", "task">>

DownInit ==
    InitWith(OpenConfig,
             [menu |-> "down", send |-> DownSends, recv |-> DownRecvs, fault |-> 0,
              life |-> 1, next_id |-> 1, env_id |-> 0])

\* zh_network_deinit is called: the _is_initialized test
zh_network_deinit_begin(n) ==
    /\ thread.down = 0
    /\ IF NotInitialized(n)
       THEN /\ last' = [NoLast EXCEPT !.op = "zh_network_deinit", !.node = n, !.ret = "ESP_FAIL"]
            /\ UNCHANGED thread
       ELSE /\ thread' = [thread EXCEPT !.down = 1]
            /\ UNCHANGED last
    /\ UNCHANGED <<init_config, is_initialized, queue, id_vector, route_vector,
                   response_vector, attempts, peers, host, sent, hist>>

\* the next statement of zh_network_deinit
zh_network_deinit_step(n) ==
    /\ thread.down > 0
    /\ LET at == thread.down
           what == IF at <= Len(DeinitOrder) THEN DeinitOrder[at] ELSE "flag"
       IN /\ thread' = [thread EXCEPT
                           !.down = IF what = "flag" THEN 0 ELSE at + 1,
                           !.deleted = IF what = "flag" THEN @ ELSE @ \cup {what},
                           !.worker = IF what = "task" THEN "idle" ELSE @,
                           !.item = IF what = "task" THEN NoItem ELSE @]
          /\ queue' = IF what = "queue" THEN [queue EXCEPT ![n] = <<>>] ELSE queue
          /\ peers' = IF what = "recv_cb" THEN [peers EXCEPT ![n] = {}] ELSE peers
          /\ id_vector' = IF what = "vectors" THEN [id_vector EXCEPT ![n] = <<>>] ELSE id_vector
          /\ route_vector' = IF what = "vectors" THEN [route_vector EXCEPT ![n] = <<>>]
                             ELSE route_vector
          /\ response_vector' = IF what = "vectors" THEN [response_vector EXCEPT ![n] = <<>>]
                                ELSE response_vector
          /\ is_initialized' = IF what = "flag" THEN [is_initialized EXCEPT ![n] = FALSE]
                               ELSE is_initialized
          /\ last' = IF what = "flag"
                     THEN [NoLast EXCEPT !.op = "zh_network_deinit", !.node = n, !.ret = "ESP_OK"]
                     ELSE last
    /\ UNCHANGED <<init_config, attempts, host, sent, hist>>

\* a call on a handle that zh_network_deinit has deleted
UseDeleted(who, what) ==
    /\ what \in thread.deleted
    /\ thread' = [thread EXCEPT !.used = @ \cup {<<who, what>>},
                                !.cb = IF who = "_send_cb" THEN Tail(@) ELSE @]
    /\ UNCHANGED <<init_config, is_initialized, queue, id_vector, route_vector,
                   response_vector, attempts, peers, host, sent, last, hist>>

DownDeinit ==
    /\ budget.life > 0
    /\ zh_network_deinit_begin(Dut)
    /\ budget' = [budget EXCEPT !.life = @ - 1]
    /\ UNCHANGED air

DownDeinitStep == zh_network_deinit_step(Dut) /\ UNCHANGED <<air, budget>>

\* zh_network_send from a task of the host
DownSend ==
    /\ budget.send > 0
    /\ NotInitialized(Dut) \/ "queue" \notin thread.deleted
    /\ zh_network_send(Dut, "NULL", "x", 1, FALSE, Fresh)
    /\ Spend("send", Dut)
    /\ UNCHANGED air

\* zh_network_send passes the _is_initialized test and calls uxQueueSpacesAvailable
DownSendDeleted ==
    /\ budget.send > 0
    /\ ~NotInitialized(Dut)
    /\ UseDeleted("zh_network_send", "queue")
    /\ budget' = [budget EXCEPT !.send = @ - 1]
    /\ UNCHANGED air

\* _recv_cb while it is registered
DownRecv ==
    /\ budget.recv > 0
    /\ {"recv_cb", "queue"} \cap thread.deleted = {}
    /\ \E f \in RaceFrames : recv_cb(Dut, f[1], f[2], TRUE)
    /\ budget' = [budget EXCEPT !.recv = @ - 1]
    /\ UNCHANGED air

\* _recv_cb calls uxQueueSpacesAvailable
DownRecvDeleted ==
    /\ budget.recv > 0
    /\ "recv_cb" \notin thread.deleted
    /\ UseDeleted("_recv_cb", "queue")
    /\ budget' = [budget EXCEPT !.recv = @ - 1]
    /\ UNCHANGED air

\* _send_cb while it is registered
DownCallback ==
    /\ {"send_cb", "event_group"} \cap thread.deleted = {}
    /\ send_cb(Dut)
    /\ UNCHANGED <<air, budget>>

\* _send_cb calls xEventGroupSetBits
DownCallbackDeleted ==
    /\ thread.cb # <<>>
    /\ "send_cb" \notin thread.deleted
    /\ UseDeleted("_send_cb", "event_group")
    /\ UNCHANGED <<air, budget>>

\* the worker while its task exists
DownTake ==
    /\ {"task", "queue"} \cap thread.deleted = {}
    /\ TO_SEND_setup(Dut)
    /\ UNCHANGED <<air, budget>>

DownTransmit ==
    /\ {"task", "recv_cb"} \cap thread.deleted = {}
    /\ esp_now_send(Dut, "ESP_NOW_SEND_SUCCESS")
    /\ UNCHANGED <<air, budget>>

DownWait ==
    /\ {"task", "event_group"} \cap thread.deleted = {}
    /\ xEventGroupWaitBits(Dut)
    /\ UNCHANGED <<air, budget>>

DownWorkerOther ==
    /\ {"task", "queue", "event_group"} \cap thread.deleted = {}
    /\ thread.worker = "idle"
    /\ ~OwnFlood(Dut)
    /\ ON_RECV(Dut, Fresh) \/ TO_SEND_success(Dut, 1)
    /\ Draw(Dut)
    /\ UNCHANGED air

\* the worker calls xQueueReceive, or xEventGroupWaitBits after esp_now_send
DownWorkerDeleted ==
    /\ "task" \notin thread.deleted
    /\ \/ thread.worker = "idle" /\ UseDeleted("_processing", "queue")
       \/ thread.worker = "wait" /\ UseDeleted("_processing", "event_group")
    /\ UNCHANGED <<air, budget>>

DownNext ==
    \/ DownDeinit
    \/ DownDeinitStep
    \/ DownSend
    \/ DownSendDeleted
    \/ DownRecv
    \/ DownRecvDeleted
    \/ DownCallback
    \/ DownCallbackDeleted
    \/ DownTake
    \/ DownTransmit
    \/ DownWait
    \/ DownWorkerOther
    \/ DownWorkerDeleted

DownSpec == DownInit /\ [][DownNext]_vars

-----------------------------------------------------------------------------
(* IdSpec: message_id = abs(esp_random()).  A 32-bit word is written as its  *)
(* two 16-bit halves, so that the arithmetic keeps the width of the code.    *)

\* 16-bit halves at the ends and in the middle of the range
SampleHalves == {0, 1, 32767, 32768, 65535}

\* the outputs of esp_random() that are tried
Words == [hi : SampleHalves, lo : SampleHalves]

ZeroWord == [hi |-> 0, lo |-> 0]

\* INT_MIN, 0x80000000
IntMin == [hi |-> 32768, lo |-> 0]

\* the uint32_t of esp_random() read as the int argument of abs is negative
Negative(w) == w.hi >= 32768

\* -w in two's complement on 32 bits
Negated(w) ==
    [hi |-> (65535 - w.hi + (IF w.lo = 0 THEN 1 ELSE 0)) % 65536,
     lo |-> (65536 - w.lo) % 65536]

\* abs(w), stored in the uint32_t message_id: the results the call can have;
\* abs(INT_MIN) is undefined and may leave any word
abs(w) ==
    IF ~Negative(w) THEN {w}
    ELSE IF w = IntMin THEN Words
    ELSE {Negated(w)}

IdInit ==
    \E w \in Words :
        InitWith(OpenConfig,
                 [menu |-> "id", send |-> 0, recv |-> 0, fault |-> 0, life |-> 0,
                  next_id |-> 1, env_id |-> 0,
                  random |-> w,            \* what esp_random() returns next
                  where |-> "NONE",        \* the statement that generated message_id
                  message_id |-> ZeroWord])

\* message_id = abs(esp_random()) at one of the places that generate an id
Generate(where) ==
    \E id \in abs(budget.random), w \in Words :
        budget' = [budget EXCEPT !.where = where, !.message_id = id, !.random = w]

IdSend ==
    /\ Generate("zh_network_send")
    /\ UNCHANGED <<init_config, is_initialized, thread, queue, id_vector, route_vector,
                   response_vector, attempts, peers, air, host, sent, last, hist>>

IdSearchRequest ==
    /\ Generate("SEARCH_REQUEST")
    /\ UNCHANGED <<init_config, is_initialized, thread, queue, id_vector, route_vector,
                   response_vector, attempts, peers, air, host, sent, last, hist>>

IdSearchResponse ==
    /\ Generate("SEARCH_RESPONSE")
    /\ UNCHANGED <<init_config, is_initialized, thread, queue, id_vector, route_vector,
                   response_vector, attempts, peers, air, host, sent, last, hist>>

IdDeliveryConfirm ==
    /\ Generate("DELIVERY_CONFIRM")
    /\ UNCHANGED <<init_config, is_initialized, thread, queue, id_vector, route_vector,
                   response_vector, attempts, peers, air, host, sent, last, hist>>

IdNext ==
    \/ IdSend
    \/ IdSearchRequest
    \/ IdSearchResponse
    \/ IdDeliveryConfirm

IdSpec == IdInit /\ [][IdNext]_vars

-----------------------------------------------------------------------------
(* Properties                                                              *)

\* the unicasts zh_network_send accepted: <<originator, frame>>
AcceptedUnicasts == {p \in hist.accepted : p[2].message_type = "UNICAST"}

\* the number of ON_SEND events node n posted for the frame d
OnSendCount(n, d) ==
    CopiesIn(OnSendEvent(d, "SUCCESS"), host[n]) + CopiesIn(OnSendEvent(d, "FAIL"), host[n])

\* the number of ON_RECV events node n posted for the message id
OnRecvCount(n, id) ==
    BagCardinality([e \in {x \in BagToSet(host[n]) : x.type = "ON_RECV" /\ x.message_id = id}
                      |-> CopiesIn(e, host[n])])

\* the message ids node n has observed
ObservedIds(n) == {q[2][2].message_id : q \in {h \in hist.heard : h[1] = n}}

\* UNICAST and DELIVERY_CONFIRM are the frames that travel along routes
Routed(data) == data.message_type \in {"UNICAST", "DELIVERY_CONFIRM"}

\* C1: for every unicast that zh_network_send accepted at its originator, the
\* originator posts at most one ON_SEND event.
C1_AtMostOneOnSend ==
    \A p \in AcceptedUnicasts : OnSendCount(p[1], p[2]) <= 1

\* C3: the ON_SEND event of an accepted unicast has status SUCCESS if and only if
\* a DELIVERY_CONFIRM for it was received while its WAIT_RESPONSE item had waited
\* at most max_waiting_time since the link success; otherwise the status is FAIL.
C3_SuccessIffConfirmedInTime ==
    \A p \in AcceptedUnicasts : \A status \in {"SUCCESS", "FAIL"} :
        CopiesIn(OnSendEvent(p[2], status), host[p[1]]) > 0
            => (status = "SUCCESS" <=> <<p[1], p[2].message_id>> \in hist.confirm_in_time)

C5_TablesBounded ==
    \A n \in Nodes :
        /\ Len(route_vector[n]) <= init_config.route_vector_size
        /\ Len(id_vector[n]) <= init_config.id_vector_size
        /\ Len(response_vector[n]) <= init_config.queue_size

\* _route_vector is full and _id_vector is full after it evicted an id
C5_Witness ==
    /\ Len(route_vector[Dut]) = init_config.route_vector_size
    /\ Len(id_vector[Dut]) = init_config.id_vector_size
    /\ hist.evicted # EmptyBag

\* C6: _route_vector holds at most one entry per destination.
C6_OneRoutePerDestination ==
    \A n \in Nodes : \A i, j \in 1..Len(route_vector[n]) :
        route_vector[n][i].original_target_mac = route_vector[n][j].original_target_mac
            => i = j

\* the step just taken: every transmission of a UNICAST or DELIVERY_CONFIRM failed
LinkFailed ==
    /\ last'.op = "TO_SEND"
    /\ last'.bit \in {"DATA_SEND_FAIL", "TIMEOUT"}
    /\ Routed(last'.item.data)

\* C7: when the link reports FAIL (or the wait times out) for a UNICAST or
\* DELIVERY_CONFIRM, no entry for its original_target_mac is left in
\* _route_vector when the item is back in the queue as WAIT_ROUTE.
C7_FailedRouteRemoved ==
    [][LinkFailed =>
          RouteIndex(route_vector'[last'.node], last'.item.data.original_target_mac) = -1]_vars


\* every transmission of a UNICAST or DELIVERY_CONFIRM the step just taken made
\* went to the next hop of the first _route_vector entry for its target
SentAlongRoute ==
    \A k \in 1..Len(sent') :
        Routed(sent'[k].data) =>
            LET rv == route_vector[sent'[k].node]
                i == RouteIndex(rv, sent'[k].data.original_target_mac)
            IN /\ i # -1
               /\ sent'[k].peer = rv[i + 1].intermediate_target_mac

\* the step just taken looked up the route of a TO_SEND item of a UNICAST or
\* DELIVERY_CONFIRM (the peer descriptor was allocated) and found no entry
HandledUnrouted ==
    /\ last'.op = "TO_SEND"
    /\ last'.fault = "NONE"
    /\ Routed(last'.item.data)
    /\ RouteIndex(route_vector[last'.node], last'.item.data.original_target_mac) = -1

\* the item just handled waits for a route and a SEARCH_REQUEST for its target is
\* at the head of the queue
DiscoveryStarted ==
    LET q == queue'[last'.node]
        d == last'.item.data
    IN /\ q # <<>>
       /\ Head(q).id = "TO_SEND"
       /\ Head(q).data.message_type = "SEARCH_REQUEST"
       /\ Head(q).data.original_target_mac = d.original_target_mac
       /\ Head(q).data.original_sender_mac = last'.node
       /\ \E k \in 1..Len(q) : q[k].id = "WAIT_ROUTE" /\ q[k].data = d

\* C8: a UNICAST or DELIVERY_CONFIRM is handed to the link only when
\* _route_vector holds an entry for its original_target_mac, and goes to that
\* entry's next hop; without an entry nothing is transmitted for the item and
\* route discovery is started instead.
C8_RoutedOrDiscovery ==
    [][/\ SentAlongRoute
       /\ HandledUnrouted => (sent' = <<>> /\ DiscoveryStarted)]_vars

\* C10: on an initialized node, zh_network_send with data_len = 0, data_len > 218
\* or data = NULL returns ESP_ERR_INVALID_ARG, puts nothing into the queue and
\* posts no event.
C10_InvalidArgRejected ==
    [][(/\ last'.op = "send"
        /\ is_initialized[last'.node]
        /\ \/ last'.arg.data_len = 0
           \/ last'.arg.data_len > 218
           \/ last'.arg.data_null) =>
          /\ last'.ret = "ESP_ERR_INVALID_ARG"
          /\ queue' = queue
          /\ host' = host]_vars

\* a message of 219 bytes was turned away while the queue held work
C10_Witness ==
    /\ last.op = "send"
    /\ last.arg.data_len = 219
    /\ last.ret = "ESP_ERR_INVALID_ARG"
    /\ queue[Dut] # <<>>


\* the ON_SEND events an originator posted for the unicast with the message id
Reported(id) ==
    \E e \in BagToSet(host[Dut]) : e.type = "ON_SEND" /\ e.message_id = id

\* C2: every unicast zh_network_send accepted leads to an ON_SEND event at the
\* originator, provided the worker keeps running and the time advances.
C2_AcceptedLeadsToOnSend ==
    \A id \in 1..MaxOwnId :
        (\E p \in AcceptedUnicasts : p[2].message_id = id) ~> Reported(id)

\* "C" delivered "x" from "A" to its host, "A" reported the SUCCESS of its
\* unicast to "C", and "A" holds the route to "C" via "B"
LineDone ==
    /\ \E e \in BagToSet(host["C"]) :
          e.type = "ON_RECV" /\ e.mac_addr = "A" /\ e.data = "x" /\ e.data_len = 1
    /\ \E e \in BagToSet(host["A"]) :
          e.type = "ON_SEND" /\ e.mac_addr = "C" /\ e.status = "SUCCESS"
    /\ \E k \in 1..Len(route_vector["A"]) :
          route_vector["A"][k] = [original_target_mac |-> "C", intermediate_target_mac |-> "B"]

-----------------------------------------------------------------------------
(* The load of the queue: zh_network_send and _recv_cb                     *)

\* the step just taken is a call of zh_network_send with valid arguments
ValidSend ==
    /\ last'.op = "send"
    /\ is_initialized[last'.node]
    /\ last'.arg.data_len >= 1
    /\ last'.arg.data_len <= 218
    /\ ~last'.arg.data_null

\* the number of free slots the call found
FreeSlots(n) == init_config.queue_size - Len(queue[n])

\* the call enqueued its item at the back as TO_SEND
EnqueuedAtBack(n) ==
    /\ Len(queue'[n]) = Len(queue[n]) + 1
    /\ SubSeq(queue'[n], 1, Len(queue[n])) = queue[n]
    /\ queue'[n][Len(queue'[n])].id = "TO_SEND"
    /\ queue'[n][Len(queue'[n])].data.original_sender_mac = n
    /\ queue'[n][Len(queue'[n])].data.payload_len = last'.arg.data_len

\* what the claim C11 says of one call
BusyExactlyWhenHalfFull ==
    IF FreeSlots(last'.node) < init_config.queue_size \div 2
    THEN last'.ret = "ESP_ERR_INVALID_STATE" /\ queue' = queue
    ELSE last'.ret = "ESP_OK" /\ EnqueuedAtBack(last'.node)

ForeignOrMalformed ==
    /\ last'.op = "recv_cb"
    /\ \/ ~last'.len_ok
       \/ last'.item.data.network_id # init_config.network_id

\* C13: a received frame whose network_id differs from the configured one, or
\* whose length is not the wire length of a frame, is dropped: no host event,
\* and _id_vector, _route_vector, _response_vector and the queue are unchanged.
C13_ForeignFrameDropped ==
    [][ForeignOrMalformed =>
          /\ last'.ret = "dropped"
          /\ host' = host
          /\ id_vector' = id_vector
          /\ route_vector' = route_vector
          /\ response_vector' = response_vector
          /\ queue' = queue]_vars

\* a frame of the network ForeignNetworkId with the right length and an id that
\* is not in _id_vector was dropped although the queue had room, after a frame
\* of the own network had been admitted
C13_Witness ==
    /\ last.op = "recv_cb"
    /\ last.ret = "dropped"
    /\ last.len_ok
    /\ last.item.data.network_id = ForeignNetworkId
    /\ IndexOf(id_vector[Dut], last.item.data.message_id) = -1
    /\ Len(queue[Dut]) <= 2
    /\ id_vector[Dut] # <<>>


-----------------------------------------------------------------------------
(* Repeated frames and _id_vector                                          *)

\* the step just taken is _recv_cb for a wire frame the node admitted before
Redelivered ==
    /\ last'.op = "recv_cb"
    /\ \E h \in hist.heard : h[1] = last'.node /\ h[2][2] = last'.item.data

\* the step just taken is _recv_cb for a frame whose message_id is in _id_vector
StillSeen ==
    /\ last'.op = "recv_cb"
    /\ \E k \in 1..Len(id_vector[last'.node]) :
          id_vector[last'.node][k] = last'.item.data.message_id

\* the step had no effect: no event, no work item, no transmission, no table change
NoEffect ==
    /\ host' = host
    /\ queue' = queue
    /\ sent' = <<>>
    /\ id_vector' = id_vector
    /\ route_vector' = route_vector
    /\ response_vector' = response_vector

\* C14 as the specification states it: delivering a wire frame again to a node
\* that admitted it before has no effect.
C14_RedeliveryNoEffect ==
    [][Redelivered => NoEffect]_vars

\* C14: delivering a frame whose message_id is still in _id_vector has no
\* effect: no ON_RECV event, no work item, no transmission and no table change.
C14_SeenIdNoEffect ==
    [][StillSeen => (last'.ret = "dropped" /\ NoEffect)]_vars

\* a frame the node admitted before came again with the right length while its id
\* was in _id_vector and the queue had room, and was dropped
C14_Witness ==
    /\ last.op = "recv_cb"
    /\ last.ret = "dropped"
    /\ last.len_ok
    /\ \E h \in hist.heard : h[1] = Dut /\ h[2][2] = last.item.data
    /\ \E k \in 1..Len(id_vector[Dut]) : id_vector[Dut][k] = last.item.data.message_id
    /\ Len(queue[Dut]) <= 2


\* _id_vector of node n took an id in the step, and when it held id_vector_size
\* ids already, the oldest one went
OldestFirst(n) ==
    /\ id_vector'[n] # <<>>
    /\ LET x == id_vector'[n][Len(id_vector'[n])]
       IN id_vector'[n] = IF Len(id_vector[n]) + 1 > init_config.id_vector_size
                          THEN Tail(Append(id_vector[n], x))
                          ELSE Append(id_vector[n], x)

\* the step just taken is _recv_cb for a frame of the own network and of the right
\* length whose id was evicted from _id_vector and is not in it, and the queue is
\* not under load
EvictedReplay ==
    /\ last'.op = "recv_cb"
    /\ last'.len_ok
    /\ last'.item.data.network_id = init_config.network_id
    /\ CopiesIn(<<last'.node, last'.item.data.message_id>>, hist.evicted) > 0
    /\ \A k \in 1..Len(id_vector[last'.node]) :
          id_vector[last'.node][k] # last'.item.data.message_id
    /\ FreeSlots(last'.node) >= init_config.queue_size - 2

\* the step just taken is the case ON_RECV for a BROADCAST, or for a UNICAST to
\* this node
HandledForHost ==
    /\ last'.op = "ON_RECV"
    /\ \/ last'.item.data.message_type = "BROADCAST"
       \/ /\ last'.item.data.message_type = "UNICAST"
          /\ last'.item.data.original_target_mac = last'.node

-----------------------------------------------------------------------------
(* Broadcasts                                                              *)

\* the BROADCAST frames of other nodes among the transmissions of the step just taken
Refloods ==
    {sent'[k] : k \in {j \in 1..Len(sent') :
                          /\ sent'[j].data.message_type = "BROADCAST"
                          /\ sent'[j].data.original_sender_mac # sent'[j].node}}

FloodCount(n, id) == CopiesIn(<<n, id>>, hist.flooded)

\* the message ids of the broadcasts zh_network_send accepted
BroadcastIds == {p[2].message_id : p \in {q \in hist.accepted : q[2].message_type = "BROADCAST"}}

\* no frame is on the air and no queue holds work
Quiet == air = [n \in Nodes |-> <<>>] /\ queue = [n \in Nodes |-> <<>>]

RefloodPerAdmission ==
    \A n \in Nodes : \A id \in BroadcastIds :
        FloodCount(n, id) <= 1 + CopiesIn(<<n, id>>, hist.evicted)

AcceptedBroadcasts == {p \in hist.accepted : p[2].message_type = "BROADCAST"}

\* the step just taken: the link confirmed the transmission of a BROADCAST of this node
OwnBroadcastSent ==
    /\ last'.op = "TO_SEND"
    /\ last'.bit = "DATA_SEND_SUCCESS"
    /\ last'.item.data.message_type = "BROADCAST"
    /\ last'.item.data.original_sender_mac = last'.node

\* C18: for a broadcast zh_network_send accepted whose transmission the link
\* confirms, the originator posts ON_SEND{FF, SUCCESS} exactly once, and it
\* never posts ON_SEND{FAIL} for a broadcast.
C18_BroadcastSuccessOnce ==
    [][/\ OwnBroadcastSent =>
             /\ OnSendEvent(last'.item.data, "SUCCESS").mac_addr = BroadcastMac
             /\ CopiesIn(OnSendEvent(last'.item.data, "SUCCESS"), host'[last'.node]) = 1
       /\ \A p \in AcceptedBroadcasts :
             /\ CopiesIn(OnSendEvent(p[2], "SUCCESS"), host'[p[1]]) <= 1
             /\ CopiesIn(OnSendEvent(p[2], "FAIL"), host'[p[1]]) = 0]_vars


-----------------------------------------------------------------------------
(* Link failures and host events of the frames sent to the broadcast peer  *)

\* the step just taken: every transmission of a BROADCAST, SEARCH_REQUEST or
\* SEARCH_RESPONSE, which go to the broadcast peer, failed
FloodFailed ==
    /\ last'.op = "TO_SEND"
    /\ last'.bit \in {"DATA_SEND_FAIL", "TIMEOUT"}
    /\ last'.item.data.message_type \in {"BROADCAST", "SEARCH_REQUEST", "SEARCH_RESPONSE"}

\* C19: a frame sent to the broadcast peer whose transmission fails is dropped
\* silently: the item leaves the queue, nothing is queued as WAIT_ROUTE, no new
\* SEARCH_REQUEST is queued, no route is removed and no event is posted; routes
\* are removed and discovery restarts only for UNICAST and DELIVERY_CONFIRM.
C19_FloodFailDropped ==
    [][FloodFailed =>
          /\ queue'[last'.node] = Tail(queue[last'.node])
          /\ route_vector' = route_vector
          /\ host' = host]_vars


\* C20: a node posts ON_SEND only for a BROADCAST or UNICAST that its own host
\* submitted through zh_network_send; SEARCH_REQUEST, SEARCH_RESPONSE and
\* DELIVERY_CONFIRM frames and the frames a node relays never cause an ON_SEND
\* event.
C20_OnSendOnlyForOwnMessages ==
    \A n \in Nodes : \A e \in BagToSet(host[n]) :
        e.type = "ON_SEND" =>
            \E p \in hist.accepted : p[1] = n /\ p[2].message_id = e.message_id


-----------------------------------------------------------------------------
(* The peer list                                                           *)

\* C21: every peer the worker registers while it handles a TO_SEND item is
\* unregistered before the case ends, on every exit path: between two work
\* items no peer is registered.
C21_NoPeerBetweenItems ==
    \A n \in Nodes : peers[n] = {}


-----------------------------------------------------------------------------
(* The moves of a work item                                                *)

\* the step just taken is a pass of the worker through its switch
WorkerStep == last'.op \in {"TO_SEND", "ON_RECV", "WAIT_ROUTE", "WAIT_RESPONSE"}

\* the number of items of the sequence q that carry the message id
Copies(q, id) == Cardinality({k \in 1..Len(q) : q[k].data.message_id = id})

\* the states an item the worker took in state id may be queued in again
NextStates(id) ==
    CASE id = "TO_SEND" -> {"WAIT_RESPONSE", "WAIT_ROUTE"}
      [] id = "ON_RECV" -> {"TO_SEND"}
      [] id = "WAIT_ROUTE" -> {"TO_SEND", "WAIT_ROUTE"}
      [] id = "WAIT_RESPONSE" -> {"TO_SEND", "WAIT_RESPONSE"}

\* the items of q that are not in the sequence rest
Added(q, rest) == {q[k] : k \in {j \in 1..Len(q) : \A i \in 1..Len(rest) : rest[i] # q[j]}}

\* C22: the worker never copies the item it took: the queue holds at most as
\* many items with its message id as before, and when the item is queued again
\* its state is one the transitions TO_SEND -> WAIT_RESPONSE | WAIT_ROUTE,
\* ON_RECV -> TO_SEND, WAIT_ROUTE | WAIT_RESPONSE -> TO_SEND allow (or the wait
\* state it had).
C22_ItemMoves ==
    [][WorkerStep =>
          LET n == last'.node
              item == last'.item
          IN /\ item = Head(queue[n])
             /\ Copies(queue'[n], item.data.message_id) <= Copies(queue[n], item.data.message_id)
             /\ \A e \in Added(queue'[n], Tail(queue[n])) :
                   e.data.message_id = item.data.message_id => e.id \in NextStates(item.id)]_vars

\* the worker has just found the route of a waiting item and queued the item as
\* TO_SEND at the back
C22_Witness ==
    /\ last.op = "WAIT_ROUTE"
    /\ last.ret = "found"
    /\ queue[Dut] # <<>>
    /\ queue[Dut][Len(queue[Dut])].id = "TO_SEND"
    /\ queue[Dut][Len(queue[Dut])].data = last.item.data


-----------------------------------------------------------------------------
(* max_waiting_time = 0                                                    *)

\* the step just taken: with max_waiting_time = 0 the worker examined the
\* WAIT_ROUTE item of a UNICAST of this node and found no route for it
ExaminedUnrouted ==
    /\ init_config.max_waiting_time = 0
    /\ last'.op = "WAIT_ROUTE"
    /\ last'.item.data.message_type = "UNICAST"
    /\ last'.item.data.original_sender_mac = last'.node
    /\ \A k \in 1..Len(route_vector[last'.node]) :
          route_vector[last'.node][k].original_target_mac # last'.item.data.original_target_mac

\* the step posted ON_SEND{FAIL} for the item and did not queue it again
FailedAtOnce ==
    /\ host'[last'.node] =
          host[last'.node] (+) SetToBag({OnSendEvent(last'.item.data, "FAIL")})
    /\ queue'[last'.node] = Tail(queue[last'.node])

-----------------------------------------------------------------------------
(* The ids of a node's own transmissions                                   *)

\* C24: when a node hands a frame to the link, as originator or as relay, the
\* message_id of the frame is in the node's _id_vector, so that a copy coming
\* back from the mesh is dropped by _recv_cb.
C24_SeenBeforeTransmission ==
    [][(last'.op = "TO_SEND" /\ last'.bit # "NONE") =>
          \E k \in 1..Len(id_vector'[last'.node]) :
             id_vector'[last'.node][k] = last'.item.data.message_id]_vars


-----------------------------------------------------------------------------
(* The target of zh_network_send                                           *)

\* the step just taken is an accepted zh_network_send, whose item is at the back of
\* the queue
AcceptedSend ==
    /\ last'.op = "send"
    /\ last'.ret = "ESP_OK"
    /\ Len(queue'[last'.node]) = Len(queue[last'.node]) + 1

\* C25: zh_network_send with a NULL target and with the broadcast address as target
\* enqueue the same item, a TO_SEND BROADCAST whose original_target_mac is the
\* broadcast address; any other target enqueues a TO_SEND UNICAST to that target.
C25_NullIsBroadcast ==
    [][AcceptedSend =>
          LET item == queue'[last'.node][Len(queue'[last'.node])]
              target == last'.arg.target
          IN /\ item.id = "TO_SEND"
             /\ item.data.original_sender_mac = last'.node
             /\ IF target \in {"NULL", "FF"}
                THEN /\ item.data.message_type = "BROADCAST"
                     /\ item.data.original_target_mac = "FF"
                ELSE /\ item.data.message_type = "UNICAST"
                     /\ item.data.original_target_mac = target]_vars

\* a send to the broadcast address was accepted
C25_Witness ==
    /\ last.op = "send"
    /\ last.ret = "ESP_OK"
    /\ last.arg.target = "FF"
    /\ queue[last.node] # <<>>
    /\ queue[last.node][Len(queue[last.node])].data.message_type = "BROADCAST"


-----------------------------------------------------------------------------
(* Before zh_network_init and after zh_network_deinit                      *)

-----------------------------------------------------------------------------
(* The mutex of _id_vector                                                 *)

\* C27: _id_vector is read and written only under its mutex, so that the scan
\* of _recv_cb for a repeated id is never under way, with part of _id_vector
\* read, while the worker holds the mutex for its insertion or eviction.
C27_ScanNeverOverlapsInsertion ==
    ~(/\ thread.recv = "scan"
      /\ thread.i > 0
      /\ thread.mutex = "worker"
      /\ thread.worker \in {"push", "evict"})


-----------------------------------------------------------------------------
(* A TO_SEND item without a route                                          *)

\* the step just taken: the worker took a TO_SEND UNICAST or DELIVERY_CONFIRM for
\* whose target _route_vector holds no entry
TookUnrouted ==
    /\ last'.op = "TO_SEND"
    /\ last'.fault = "NONE"
    /\ last'.item.data.message_type \in {"UNICAST", "DELIVERY_CONFIRM"}
    /\ \A k \in 1..Len(route_vector[last'.node]) :
          route_vector[last'.node][k].original_target_mac
             # last'.item.data.original_target_mac

\* C28: a TO_SEND UNICAST or DELIVERY_CONFIRM without a route goes to the back of
\* the queue as WAIT_ROUTE, unchanged and stamped with the present time; a TO_SEND
\* SEARCH_REQUEST of this node for the same target, without payload and with a
\* fresh message_id, goes to the front, ahead of the WAIT_ROUTE item; nothing is
\* transmitted in the step.
C28_WaitRouteAndSearchRequest ==
    [][TookUnrouted =>
          LET n == last'.node
              item == last'.item
              q == queue'[n]
          IN /\ sent' = <<>>
             /\ Len(q) = Len(queue[n]) + 1
             /\ q[Len(q)] = [item EXCEPT !.id = "WAIT_ROUTE", !.time = 0]
             /\ SubSeq(q, 2, Len(q) - 1) = Tail(queue[n])
             /\ q[1].id = "TO_SEND"
             /\ q[1].data.message_type = "SEARCH_REQUEST"
             /\ q[1].data.original_sender_mac = n
             /\ q[1].data.original_target_mac = item.data.original_target_mac
             /\ q[1].data.payload_len = 0
             /\ q[1].data.message_id = Fresh
             /\ \A k \in 1..Len(queue[n]) : queue[n][k].data.message_id # Fresh]_vars


-----------------------------------------------------------------------------
(* A received UNICAST                                                      *)

-----------------------------------------------------------------------------
(* Where the routes come from                                              *)

\* C30: every entry of a node's _route_vector was learned from a SEARCH_REQUEST or
\* SEARCH_RESPONSE that the node received: its target is the original_sender_mac
\* of that frame and its next hop is the source address the link callback
\* reported for that reception, whatever sender_mac the frame carried.
C30_RoutesFromLinkSource ==
    \A n \in Nodes : \A k \in 1..Len(route_vector[n]) :
        \E h \in hist.heard :
           /\ h[1] = n
           /\ h[2][2].message_type \in {"SEARCH_REQUEST", "SEARCH_RESPONSE"}
           /\ h[2][2].original_sender_mac = route_vector[n][k].original_target_mac
           /\ h[2][1] = route_vector[n][k].intermediate_target_mac

\* "C" has learned the route to "A" through "B" from a SEARCH_REQUEST of "A" that
\* carried another sender_mac than the address of "B"
C30_Witness ==
    /\ \E k \in 1..Len(route_vector["C"]) :
          /\ route_vector["C"][k].original_target_mac = "A"
          /\ route_vector["C"][k].intermediate_target_mac = "B"
    /\ \E h \in hist.heard :
          /\ h[1] = "C"
          /\ h[2][1] = "B"
          /\ h[2][2].message_type = "SEARCH_REQUEST"
          /\ h[2][2].original_sender_mac = "A"
          /\ h[2][2].sender_mac # "B"


-----------------------------------------------------------------------------
(* Received SEARCH_REQUEST and SEARCH_RESPONSE                             *)

\* C31: the worker handling a received SEARCH_REQUEST for this node puts one TO_SEND
\* SEARCH_RESPONSE at the front of the queue (to the originator of the request,
\* from this node, with a fresh message_id and no payload) and does not queue the
\* request again; a SEARCH_REQUEST for another node, and a SEARCH_RESPONSE for
\* another node, go back to the front as TO_SEND, unchanged, to be flooded; a
\* SEARCH_RESPONSE for this node queues nothing.
C31_RespondOrReflood ==
    [][(/\ last'.op = "ON_RECV"
        /\ last'.item.data.message_type \in {"SEARCH_REQUEST", "SEARCH_RESPONSE"}) =>
          LET n == last'.node
              d == last'.item.data
              q == queue'[n]
              rest == Tail(queue[n])
          IN /\ sent' = <<>>
             /\ host' = host
             /\ IF d.original_target_mac # n
                THEN q = <<[last'.item EXCEPT !.id = "TO_SEND"]>> \o rest
                ELSE IF d.message_type = "SEARCH_RESPONSE"
                THEN q = rest
                ELSE /\ Len(q) = Len(rest) + 1
                     /\ Tail(q) = rest
                     /\ q[1].id = "TO_SEND"
                     /\ q[1].data.message_type = "SEARCH_RESPONSE"
                     /\ q[1].data.original_target_mac = d.original_sender_mac
                     /\ q[1].data.original_sender_mac = n
                     /\ q[1].data.message_id = Fresh
                     /\ q[1].data.message_id # d.message_id
                     /\ q[1].data.payload_len = 0
                     /\ q[1].data.payload = NoPayload
                     /\ \A k \in 1..Len(rest) :
                           rest[k].data.message_id # d.message_id]_vars

\* "C" has taken the SEARCH_REQUEST of "A" for "C" that "B" flooded on, and its
\* SEARCH_RESPONSE is at the front of its queue
C31_Witness ==
    /\ last.op = "ON_RECV"
    /\ last.node = "C"
    /\ last.item.data.message_type = "SEARCH_REQUEST"
    /\ last.item.data.original_target_mac = "C"
    /\ last.item.data.sender_mac = "B"
    /\ queue["C"] # <<>>
    /\ Head(queue["C"]).data.message_type = "SEARCH_RESPONSE"
    /\ Head(queue["C"]).data.original_target_mac = "A"


-----------------------------------------------------------------------------
(* A WAIT_ROUTE item                                                       *)

\* C32: the worker examining a WAIT_ROUTE item puts it at the back of the queue as
\* TO_SEND when _route_vector holds an entry for its target; without an entry it
\* puts the item back at the back unchanged, with its stamp, while no more than
\* max_waiting_time has passed since the stamp, and drops it after that; the
\* step transmits nothing.
C32_RoutedOrWaitingOrDropped ==
    [][last'.op = "WAIT_ROUTE" =>
          LET n == last'.node
              item == last'.item
              rest == Tail(queue[n])
              q == queue'[n]
              routed == \E k \in 1..Len(route_vector[n]) :
                           route_vector[n][k].original_target_mac
                              = item.data.original_target_mac
          IN /\ sent' = <<>>
             /\ item = Head(queue[n])
             /\ IF routed
                THEN /\ Len(q) = Len(rest) + 1
                     /\ SubSeq(q, 1, Len(rest)) = rest
                     /\ q[Len(q)].id = "TO_SEND"
                     /\ q[Len(q)].data = item.data
                ELSE IF item.time > init_config.max_waiting_time
                THEN q = rest
                ELSE q = Append(rest, item)]_vars

\* a WAIT_ROUTE item was dropped behind other items, two milliseconds after its
\* stamp, and no item of the queue carries its frame
C32_Witness ==
    /\ last.op = "WAIT_ROUTE"
    /\ last.ret = "expired"
    /\ init_config.max_waiting_time = 1
    /\ last.item.time = 2
    /\ queue[last.node] # <<>>
    /\ \A k \in 1..Len(queue[last.node]) :
          queue[last.node][k].data.message_id # last.item.data.message_id

\* C33: whenever a node's host has ON_SEND SUCCESS for a unicast message, the
\* host of the message's target has already got the ON_RECV event for it
C33_SuccessAfterDelivery ==
    \A n \in Nodes : \A e \in BagToSet(host[n]) :
        (e.type = "ON_SEND" /\ e.status = "SUCCESS")
            => \E r \in BagToSet(host[e.mac_addr]) :
                  r.type = "ON_RECV" /\ r.message_id = e.message_id /\ r.mac_addr = n

\* C34: handling a SEARCH_REQUEST or SEARCH_RESPONSE changes _route_vector only
\* by replacing the entry for the frame's original_sender_mac (the oldest entry
\* leaves on overflow); every other entry, the one for the frame's
\* original_target_mac included, stays as it was.
C34_OnlySenderEntryReplaced ==
    [][(/\ last'.op = "ON_RECV"
        /\ last'.fault = "NONE"
        /\ last'.item.data.message_type \in {"SEARCH_REQUEST", "SEARCH_RESPONSE"})
          => LET n == last'.node
                 d == last'.item.data
             IN route_vector'[n] =
                    PushBounded(DeleteRoutes(route_vector[n], d.original_sender_mac),
                                [original_target_mac |-> d.original_sender_mac,
                                 intermediate_target_mac |-> d.sender_mac],
                                init_config.route_vector_size)]_vars

\* C35: every WAIT_RESPONSE item in a node's queue is a UNICAST whose
\* original_sender_mac is that node, no two WAIT_RESPONSE items of a node carry
\* the same message_id, and every WAIT_ROUTE item is a UNICAST or a
\* DELIVERY_CONFIRM.
C35_WaitItemsWellFormed ==
    \A n \in Nodes : \A i \in 1..Len(queue[n]) :
        LET item == queue[n][i]
        IN /\ item.id = "WAIT_RESPONSE" =>
                 /\ item.data.message_type = "UNICAST"
                 /\ item.data.original_sender_mac = n
                 /\ \A j \in 1..Len(queue[n]) :
                       (/\ queue[n][j].id = "WAIT_RESPONSE"
                        /\ queue[n][j].data.message_id = item.data.message_id) => j = i
           /\ item.id = "WAIT_ROUTE" =>
                 item.data.message_type \in {"UNICAST", "DELIVERY_CONFIRM"}

\* C36: the result the worker acts on for a transmission is the status the link
\* reported for that transmission: the bits xEventGroupWaitBits returned after
\* the k-th esp_now_send are, unless the wait timed out, the one bit of the
\* status of the k-th transmission.
C36_ResultOfSameTransmission ==
    thread.acted.bit # {} =>
        thread.acted.bit = {EventBit(thread.link[thread.acted.tx])}

\* C37: while zh_network_deinit runs beside the engine, neither zh_network_send
\* nor _recv_cb nor _send_cb nor the worker calls on the work queue or on the
\* event group after zh_network_deinit has deleted it.
C37_NoUseAfterDelete ==
    \A u \in thread.used : u[2] \notin {"queue", "event_group"}

\* the step just taken: the worker re-queued the TO_SEND item as WAIT_ROUTE and
\* queued a SEARCH_REQUEST, for want of a route or after the last failed try
TwoInsertions ==
    /\ last'.op = "TO_SEND"
    /\ last'.fault = "NONE"
    /\ \/ last'.ret = "no_route"
       \/ /\ last'.bit \in {"DATA_SEND_FAIL", "TIMEOUT"}
          /\ last'.item.data.original_target_mac # BroadcastMac

\* C38: with queue_size >= 4 every insertion of the worker finds a free place, so
\* no item is lost to a full queue: a case that takes one item and inserts two
\* leaves the queue one item longer.
C38_InsertionsFindRoom ==
    [][(TwoInsertions /\ init_config.queue_size >= 4)
          => Len(queue'[last'.node]) = Len(queue[last'.node]) + 1]_vars

\* C39: while it handles one TO_SEND item the worker hands the frame to the link
\* at most max(1, attempts) times, and _attempts is 0 whenever the worker is
\* between two work items, whatever path the last item took.
C39_AttemptsBoundedAndReset ==
    /\ Len(sent) <= IF init_config.attempts > 1 THEN init_config.attempts ELSE 1
    /\ \A n \in Nodes : attempts[n] = 0

\* C40: every message_id the node generates, in zh_network_send and for
\* SEARCH_REQUEST, SEARCH_RESPONSE and DELIVERY_CONFIRM, is non-zero and
\* positive, whatever 32-bit word esp_random() returned.
C40_MessageIdPositive ==
    budget.where # "NONE" =>
        /\ budget.message_id # ZeroWord
        /\ ~Negative(budget.message_id)

====
